---- MODULE Spec2Model ----
(***************************************************************************)
(* View3D: the mesh Model (model.hpp / model.cpp).  A Model owns a vertex  *)
(* buffer, a polygon buffer and a last-error pair; LoadFromFile reads a    *)
(* text file line by line.  Text is modelled as sequences of one-character *)
(* strings, so that the scanners (sscanf, operator>>, std::stoul) are      *)
(* modelled by what they consume and not by what their caller hopes for.   *)
(***************************************************************************)
EXTENDS Integers, Sequences, FiniteSets, TLC

\* Longest file (number of lines) a load reads.
MaxLines == 5

(***************************************************************************)
(* Model::ErrorCode                                                        *)
(***************************************************************************)
kSuccess == 0

kFileOpenError == 1

kInvalidData == 2

kNoValidData == 3

(***************************************************************************)
(* float and double.  Vertex::x, y, z and the commands' parameters are     *)
(* IEEE 754 binary32; RotatePair computes in binary64 (cos and sin return  *)
(* double).  A finite value is sign * magnitude * 2^exp.  Magnitudes of    *)
(* intermediate results need more than 31 bits, so they are written as     *)
(* little-endian sequences of base-4096 digits ("limbs"), the empty        *)
(* sequence being zero; each operation computes the exact result and then  *)
(* rounds it to nearest, ties to even, as the hardware does.  A result of  *)
(* magnitude 2^128 or more is an infinity, and an operation with no value  *)
(* gives NaN.  Subnormals and the sign of zero are left out: the inputs    *)
(* below keep every exponent far above the smallest of binary32.           *)
(***************************************************************************)
Limb(a, i) == IF 1 <= i /\ i <= Len(a) THEN a[i] ELSE 0

\* Drop the zero limbs at the most significant end.
BNorm(a) ==
  LET nonzero == {i \in 1..Len(a) : a[i] # 0}
  IN  IF nonzero = {} THEN <<>>
      ELSE SubSeq(a, 1, CHOOSE m \in nonzero : \A i \in nonzero : i <= m)

\* 0 <= n < 2^31 as limbs, and back.
BFromInt(n) == BNorm(<<n % 4096, (n \div 4096) % 4096, n \div 16777216>>)

BToInt(a) == Limb(a, 1) + 4096 * Limb(a, 2) + 16777216 * Limb(a, 3)

\* a + b: limb i of the sum takes a carry when some lower limb pair
\* overflows and every pair between the two passes the carry on.
BAdd(a, b) ==
  LET n == (IF Len(a) < Len(b) THEN Len(b) ELSE Len(a)) + 1
      s == SubSeq([i \in 1..n |-> Limb(a, i) + Limb(b, i)], 1, n)
      carry(i) == IF \E j \in 1..(i - 1) :
                       s[j] >= 4096 /\ \A k \in (j + 1)..(i - 1) : s[k] = 4095
                  THEN 1 ELSE 0
  IN  BNorm(SubSeq([i \in 1..n |-> (s[i] + carry(i)) % 4096], 1, n))

\* a - b for a >= b, with the borrows found the same way.
BSub(a, b) ==
  LET n == Len(a)
      d == SubSeq([i \in 1..n |-> a[i] - Limb(b, i)], 1, n)
      borrow(i) == IF \E j \in 1..(i - 1) :
                        d[j] < 0 /\ \A k \in (j + 1)..(i - 1) : d[k] = 0
                   THEN 1 ELSE 0
  IN  BNorm(SubSeq([i \in 1..n |-> (d[i] - borrow(i) + 4096) % 4096], 1, n))

\* -1, 0, 1 as a < b, a = b, a > b: decided by the highest limb that differs.
BCmp(a, b) ==
  LET n == IF Len(a) < Len(b) THEN Len(b) ELSE Len(a)
      differ == {i \in 1..n : Limb(a, i) # Limb(b, i)}
  IN  IF differ = {} THEN 0
      ELSE LET m == CHOOSE m \in differ : \A i \in differ : i <= m
           IN  IF Limb(a, m) < Limb(b, m) THEN 0 - 1 ELSE 1

\* The sum of the limb products a[i] * b[j] of weight 4096^(k-1), from j on.
RECURSIVE BColumn(_, _, _, _)
BColumn(a, b, k, j) ==
  IF j > Len(b) THEN 0
  ELSE Limb(a, k + 1 - j) * b[j] + BColumn(a, b, k, j + 1)

\* a * b: the column sums, each split into three limbs.
BMul(a, b) ==
  IF a = <<>> \/ b = <<>> THEN <<>>
  ELSE LET n == Len(a) + Len(b) - 1
           col == IF Len(a) < Len(b)
                  THEN SubSeq([k \in 1..n |-> BColumn(b, a, k, 1)], 1, n)
                  ELSE SubSeq([k \in 1..n |-> BColumn(a, b, k, 1)], 1, n)
       IN  BAdd(BAdd(SubSeq([k \in 1..n |-> col[k] % 4096], 1, n),
                     <<0>> \o SubSeq([k \in 1..n |-> (col[k] \div 4096) % 4096], 1, n)),
                <<0, 0>> \o SubSeq([k \in 1..n |-> col[k] \div 16777216], 1, n))

\* n zero limbs.
Zeros(n) == SubSeq([i \in 1..n |-> 0], 1, n)

\* a * 2^k: whole limbs of zeros, then every limb takes the low bits of its
\* own shifted value and the high bits of the limb below.
BShl(a, k) ==
  LET r == k % 12
      n == Len(a) + 1
  IN  IF a = <<>> THEN a
      ELSE BNorm(Zeros(k \div 12)
                 \o SubSeq([i \in 1..n |->
                              ((Limb(a, i) * (2 ^ r)) % 4096)
                              + (Limb(a, i - 1) \div (2 ^ (12 - r)))], 1, n))

\* floor(b / 2^r) for r < 12, limb by limb.
BShrBits(b, r) ==
  SubSeq([i \in 1..Len(b) |->
            (b[i] \div (2 ^ r)) + (Limb(b, i + 1) % (2 ^ r)) * (2 ^ (12 - r))],
         1, Len(b))

\* floor(a / 2^k)
BShr(a, k) ==
  LET w == k \div 12
  IN  IF w >= Len(a) THEN <<>>
      ELSE BNorm(BShrBits(SubSeq(a, w + 1, Len(a)), k % 12))

\* Bit i of a, bit 0 the least significant.
BBit(a, i) == (Limb(a, (i \div 12) + 1) \div (2 ^ (i % 12))) % 2

\* The number of bits of n, 0 <= n < 2^30.
IntBitLen(n) == CHOOSE k \in 0..30 : n < 2 ^ k /\ (k = 0 \/ n >= 2 ^ (k - 1))

BBitLen(a) ==
  IF a = <<>> THEN 0 ELSE 12 * (Len(a) - 1) + IntBitLen(a[Len(a)])

\* The k low bits of a are all zero.
BLowZero(a, k) == BShl(BShr(a, k), k) = a

\* An exact value: (neg ? -1 : 1) * mag * 2^exp.
Dyadic(neg, mag, exp) == [neg |-> neg, mag |-> mag, exp |-> exp]

DNeg(a) == [a EXCEPT !.neg = IF a.mag = <<>> THEN FALSE ELSE ~@]

DMul(a, b) ==
  IF a.mag = <<>> \/ b.mag = <<>> THEN Dyadic(FALSE, <<>>, 0)
  ELSE Dyadic(a.neg # b.neg, BMul(a.mag, b.mag), a.exp + b.exp)

\* The exact sum, on the smaller of the two exponents.
\* The sum of two values of opposite signs whose magnitudes x and y are on
\* the same exponent e, c being BCmp(x, y).
DAdd_opposite(a, b, x, y, e, c) ==
  IF c = 0 THEN Dyadic(FALSE, <<>>, 0)
  ELSE IF c > 0 THEN Dyadic(a.neg, BSub(x, y), e)
  ELSE Dyadic(b.neg, BSub(y, x), e)

\* The sum once both magnitudes are on the exponent e.
DAdd_aligned(a, b, x, y, e) ==
  IF a.neg = b.neg THEN Dyadic(a.neg, BAdd(x, y), e)
  ELSE DAdd_opposite(a, b, x, y, e, BCmp(x, y))

DAdd_on(a, b, e) ==
  DAdd_aligned(a, b, BShl(a.mag, a.exp - e), BShl(b.mag, b.exp - e), e)

DAdd(a, b) ==
  IF a.mag = <<>> THEN b
  ELSE IF b.mag = <<>> THEN a
  ELSE DAdd_on(a, b, IF a.exp < b.exp THEN a.exp ELSE b.exp)

DSub(a, b) == DAdd(a, DNeg(b))

\* -1, 0, 1 as a < b, a = b, a > b.
DSign(d) == IF d.mag = <<>> THEN 0 ELSE IF d.neg THEN 0 - 1 ELSE 1

DCmp(a, b) == DSign(DSub(a, b))

DAbs(a) == [a EXCEPT !.neg = FALSE]

\* Round to p significant bits, to nearest, ties to even.
\* a with its k low bits dropped, q being the bits kept: rounded up when
\* the highest dropped bit is set and a lower one or the lowest kept one is.
RoundTo_kept(a, k, q) ==
  Dyadic(a.neg,
         IF /\ BBit(a.mag, k - 1) = 1
            /\ (~BLowZero(a.mag, k - 1) \/ BBit(q, 0) = 1)
         THEN BAdd(q, <<1>>) ELSE q,
         a.exp + k)

RoundTo_drop(a, k) == IF k <= 0 THEN a ELSE RoundTo_kept(a, k, BShr(a.mag, k))

RoundTo(p, a) ==
  IF a.mag = <<>> THEN a ELSE RoundTo_drop(a, BBitLen(a.mag) - p)

\* A float in the state: <<m, e>> for m * 2^e, m odd with |m| < 2^24, or
\* <<0, 0>>; every binary32 value has exactly one such form.
Canon(m, e) ==
  IF m = 0 THEN <<0, 0>>
  ELSE LET k == CHOOSE k \in 0..30 : m % (2 ^ k) = 0 /\ (m \div (2 ^ k)) % 2 = 1
       IN  <<m \div (2 ^ k), e + k>>

\* float -> exact value (also the conversion float -> double, which is exact).
Exact(f) ==
  Dyadic(f[1] < 0, BFromInt(IF f[1] < 0 THEN 0 - f[1] ELSE f[1]), f[2])

\* The values of float that are not finite.  No finite float has the
\* exponent 128 in the form above: FLT_MAX is (2^24 - 1) * 2^104.
Infinity == <<1, 128>>

NegInfinity == <<0 - 1, 128>>

NaN == <<0, 128>>

IsFinite(f) == f[2] # 128

Negative(f) == <<0 - f[1], f[2]>>

\* The conversion to float: rounds to 24 significant bits; a rounded
\* magnitude of 2^128 or more overflows to an infinity.
ToFloat_rounded(r) ==
  IF BBitLen(r.mag) + r.exp > 128
  THEN (IF r.neg THEN NegInfinity ELSE Infinity)
  ELSE IF r.neg THEN Canon(0 - BToInt(r.mag), r.exp)
  ELSE Canon(BToInt(r.mag), r.exp)

ToFloat(a) == ToFloat_rounded(RoundTo(24, a))

\* The arithmetic of double: 53 significant bits.
ToDouble(a) == RoundTo(53, a)

\* The float an integer converts to (strtof on a decimal integer).
FloatOfInt(n) == ToFloat(Dyadic(n < 0, BFromInt(IF n < 0 THEN 0 - n ELSE n), 0))

\* A sum with an operand that is not finite: NaN with a NaN or with the two
\* opposite infinities, else the infinity.
AddNotFinite(a, b) ==
  IF a = NaN \/ b = NaN THEN NaN
  ELSE IF IsFinite(a) THEN b
  ELSE IF IsFinite(b) \/ a = b THEN a
  ELSE NaN

\* A product or quotient with an operand that is not finite, once NaN,
\* infinity * 0 and infinity / infinity are set aside: the signed infinity.
SignedInfinity(a, b) == IF (a[1] < 0) # (b[1] < 0) THEN NegInfinity ELSE Infinity

\* float + float, float - float, float * float
fadd(a, b) ==
  IF ~IsFinite(a) \/ ~IsFinite(b) THEN AddNotFinite(a, b)
  ELSE IF a[1] = 0 THEN b ELSE IF b[1] = 0 THEN a
  ELSE ToFloat(DAdd(Exact(a), Exact(b)))

fsub(a, b) ==
  IF ~IsFinite(a) \/ ~IsFinite(b) THEN AddNotFinite(a, Negative(b))
  ELSE IF b[1] = 0 THEN a ELSE IF a[1] = 0 THEN <<0 - b[1], b[2]>>
  ELSE ToFloat(DSub(Exact(a), Exact(b)))

fmul(a, b) ==
  IF ~IsFinite(a) \/ ~IsFinite(b)
  THEN (IF a[1] = 0 \/ b[1] = 0 THEN NaN ELSE SignedInfinity(a, b))
  ELSE IF a[1] = 0 \/ b[1] = 0 THEN <<0, 0>>
  ELSE ToFloat(DMul(Exact(a), Exact(b)))

\* a < b, std::min(a, b), std::max(a, b) on float; a comparison with NaN
\* is false.
flt(a, b) == a # NaN /\ b # NaN /\ DCmp(Exact(a), Exact(b)) < 0

fmin(a, b) == IF flt(b, a) THEN b ELSE a

fmax(a, b) == IF flt(a, b) THEN b ELSE a

\* |m| shifted left until it has 24 bits, with the exponent that goes with it.
Norm24(m, e) ==
  LET k == 24 - IntBitLen(m) IN <<m * (2 ^ k), e - k>>

Magnitude(f) == IF f[1] < 0 THEN 0 - f[1] ELSE f[1]

\* n more quotient digits of rem / d by long division in base 64, for
\* rem < d < 2^24: [q, rem].
RECURSIVE DivBits(_, _, _, _)
DivBits(rem, d, q, n) ==
  IF n = 0 THEN [q |-> q, rem |-> rem]
  ELSE DivBits((64 * rem) % d, d, 64 * q + ((64 * rem) \div d), n - 1)

\* float / float for b # 0: 31 bits of the quotient of the two 24-bit
\* magnitudes (25 bits, then 6 more) and a sticky bit for the remainder,
\* then rounded.
fdiv(a, b) ==
  IF ~IsFinite(a) \/ ~IsFinite(b)
  THEN (IF a = NaN \/ b = NaN \/ ~(IsFinite(a) \/ IsFinite(b)) THEN NaN
        ELSE IF IsFinite(a) THEN <<0, 0>>
        ELSE SignedInfinity(a, b))
  ELSE IF a[1] = 0 THEN <<0, 0>>
  ELSE LET x == Norm24(Magnitude(a), a[2])
           y == Norm24(Magnitude(b), b[2])
           first == IF x[1] >= y[1] THEN 1 ELSE 0
           high == DivBits(x[1] - first * y[1], y[1], first, 4)
           low == DivBits(high.rem, y[1], 0, 1)
           sticky == IF low.rem = 0 THEN 0 ELSE 1
       IN  ToFloat(Dyadic((a[1] < 0) # (b[1] < 0),
                          BAdd(BShl(BFromInt(high.q), 7),
                               BFromInt(2 * low.q + sticky)),
                          x[2] - y[2] - 31))

\* One step of the digit-by-digit square root: k more bits of the root from
\* 2k more bits of the number, for st = [root, rem] with rem the part of the
\* number read so far minus root squared.
SqrtBits(st, chunk, k) ==
  LET r == (4 ^ k) * st.rem + chunk
      base == 2 * st.root * (2 ^ k)
      d == CHOOSE d \in 0..((2 ^ k) - 1) :
             /\ (base + d) * d <= r
             /\ (d = (2 ^ k) - 1 \/ (base + d + 1) * (d + 1) > r)
  IN  [root |-> st.root * (2 ^ k) + d, rem |-> r - (base + d) * d]

\* std::sqrt(float) for a >= 0: the magnitude scaled to 49 or 50 bits on an
\* even exponent (its low 18 bits are zero), the 25-bit root in steps of
\* 8, 8, 4, 3 and 2 bits, a sticky bit for the remainder, then rounded.
fsqrt(a) ==
  IF ~IsFinite(a) THEN (IF a = Infinity THEN a ELSE NaN)
  ELSE IF a[1] = 0 THEN <<0, 0>>
  ELSE LET x == Norm24(a[1], a[2])
           s == IF (x[2] - 26) % 2 = 0 THEN 26 ELSE 25
           high == SqrtBits([root |-> 0, rem |-> 0], x[1] \div (2 ^ (34 - s)), 8)
           low == SqrtBits(high, (x[1] % (2 ^ (34 - s))) * (2 ^ (s - 18)), 8)
           r == SqrtBits(SqrtBits(SqrtBits(low, 0, 4), 0, 3), 0, 2)
           sticky == IF r.rem = 0 THEN 0 ELSE 1
       IN  ToFloat(Dyadic(FALSE, BFromInt(2 * r.root + sticky),
                          ((x[2] - s) \div 2) - 1))

(***************************************************************************)
(* Characters and the C library scanners                                   *)
(***************************************************************************)
Digits == {"0", "1", "2", "3", "4", "5", "6", "7", "8", "9"}

DigitVal(c) ==
  CASE c = "0" -> 0 [] c = "1" -> 1 [] c = "2" -> 2 [] c = "3" -> 3
    [] c = "4" -> 4 [] c = "5" -> 5 [] c = "6" -> 6 [] c = "7" -> 7
    [] c = "8" -> 8 [] c = "9" -> 9

\* std::isspace in the "C" locale, over the characters the inputs use.
isspace(c) == c \in {" ", "\t"}

\* line.erase(line.begin(), find_if(..., !isspace)): drop leading whitespace.
RECURSIVE LTrim(_)
LTrim(s) ==
  IF s = <<>> THEN s
  ELSE IF isspace(Head(s)) THEN LTrim(Tail(s)) ELSE s

\* std::string::starts_with
starts_with(s, p) == Len(s) >= Len(p) /\ SubSeq(s, 1, Len(p)) = p

\* std::string::substr(pos): the suffix from 0-based position pos.
substr(s, pos) == SubSeq(s, pos + 1, Len(s))

\* The run of decimal digits at the front of s: [val, n, rest] with n the
\* number of digits consumed.
RECURSIVE ScanDigits(_, _, _)
ScanDigits(s, acc, n) ==
  IF s # <<>> /\ Head(s) \in Digits
  THEN ScanDigits(Tail(s), 10 * acc + DigitVal(Head(s)), n + 1)
  ELSE [val |-> acc, n |-> n, rest |-> s]

\* 5^n as limbs, for n < 52 (10^39 is already above FLT_MAX).
RECURSIVE Pow5(_)
Pow5(n) ==
  IF n < 13 THEN BFromInt(5 ^ n) ELSE BMul(BFromInt(5 ^ 13), Pow5(n - 13))

\* The exponent part of strtof's subject sequence at the front of s: e or E,
\* an optional +, digits.  Without digits nothing is consumed.
ScanExponent(s) ==
  IF s # <<>> /\ Head(s) \in {"e", "E"}
  THEN LET u == Tail(s)
           d == ScanDigits(IF u # <<>> /\ Head(u) = "+" THEN Tail(u) ELSE u, 0, 0)
       IN  IF d.n > 0 THEN [exp |-> d.val, rest |-> d.rest]
           ELSE [exp |-> 0, rest |-> s]
  ELSE [exp |-> 0, rest |-> s]

\* One %f conversion of sscanf (strtof's subject sequence over the input
\* alphabet: optional sign, digits, optional exponent that is not
\* negative): skips leading whitespace, consumes the longest prefix that is
\* a number and converts digits * 10^exp to the nearest float.  eof: the
\* input ended before any character of the field; ok: a number was
\* converted.
ScanFloat_scaled(t, neg, d, x) ==
  [eof  |-> t = <<>>,
   ok   |-> d.n > 0,
   val  |-> ToFloat(Dyadic(neg, BMul(BFromInt(d.val), Pow5(x.exp)), x.exp)),
   rest |-> x.rest]

ScanFloat_digits(t, neg, d) ==
  ScanFloat_scaled(t, neg, d,
                   IF d.n > 0 THEN ScanExponent(d.rest)
                   ELSE [exp |-> 0, rest |-> d.rest])

ScanFloat_signed(t, signed) ==
  ScanFloat_digits(t, signed /\ Head(t) = "-",
                   ScanDigits(IF signed THEN Tail(t) ELSE t, 0, 0))

ScanFloat_trimmed(t) ==
  ScanFloat_signed(t, t # <<>> /\ Head(t) \in {"-", "+"})

ScanFloat(s) == ScanFloat_trimmed(LTrim(s))

\* The conversions of "%f %f %f" still to do on s: the values converted so
\* far, stopping at the first field that does not convert.
RECURSIVE ScanFloats(_, _, _)
\* What follows the conversion f of one field.
ScanFloats_after(f, todo, got) ==
  IF f.ok THEN ScanFloats(f.rest, todo - 1, Append(got, f.val))
  ELSE IF f.eof /\ got = <<>> THEN [count |-> 0 - 1, vals |-> got]
  ELSE [count |-> Len(got), vals |-> got]

ScanFloats(s, todo, got) ==
  IF todo = 0 THEN [count |-> Len(got), vals |-> got]
  ELSE ScanFloats_after(ScanFloat(s), todo, got)

\* sscanf(line, "v %f %f %f", &x, &y, &z): the literal v, then three float
\* fields each preceded by any amount of whitespace.  Text after the third
\* field is never looked at.  count is sscanf's return value.
sscanf_v3f(s) ==
  IF s = <<>> THEN [count |-> 0 - 1, vals |-> <<>>]
  ELSE IF Head(s) # "v" THEN [count |-> 0, vals |-> <<>>]
  ELSE ScanFloats(Tail(s), 3, <<>>)

\* while (iss >> token): the maximal runs of non-whitespace characters.
RECURSIVE TakeWord(_, _)
TakeWord(s, w) ==
  IF s = <<>> \/ isspace(Head(s)) THEN [word |-> w, rest |-> s]
  ELSE TakeWord(Tail(s), Append(w, Head(s)))

RECURSIVE Tokens(_)
Tokens(s) ==
  LET t == LTrim(s)
  IN  IF t = <<>> THEN <<>>
      ELSE LET w == TakeWord(t, <<>>) IN <<w.word>> \o Tokens(w.rest)

\* token.find('/'): the 0-based position of the first '/', or npos (-1 here).
RECURSIVE find(_, _, _)
find(s, c, from) ==
  IF from >= Len(s) THEN 0 - 1
  ELSE IF s[from + 1] = c THEN from ELSE find(s, c, from + 1)

\* std::stoul(token): strtoul in base 10 on the front of the token: optional
\* sign, then digits; characters after the digits are ignored.  No digit:
\* std::invalid_argument (ok = FALSE).  A minus sign negates the value in
\* unsigned 64-bit arithmetic: the result 2^64 - m is represented here by the
\* integer -m (its two's-complement reading), exact while m < 2^63.
stoul(tok) ==
  LET t == LTrim(tok)
      signed == t # <<>> /\ Head(t) \in {"-", "+"}
      u == IF signed THEN Tail(t) ELSE t
      d == ScanDigits(u, 0, 0)
  IN  [ok  |-> d.n > 0,
       val |-> IF signed /\ Head(t) = "-" THEN 0 - d.val ELSE d.val]

\* a > b on size_t values, a in the two's-complement representation above.
size_t_gt(a, b) == IF a < 0 THEN TRUE ELSE a > b

(***************************************************************************)
(* Polygon                                                                 *)
(***************************************************************************)
\* The loop of Polygon::IsValid from position i on, unique_indices so far.
RECURSIVE Polygon_IsValid_loop(_, _, _, _)
Polygon_IsValid_loop(vertex_indices, max_vertex_index, i, unique_indices) ==
  IF i > Len(vertex_indices) THEN Cardinality(unique_indices) >= 3
  ELSE IF vertex_indices[i] >= max_vertex_index THEN FALSE
  ELSE Polygon_IsValid_loop(vertex_indices, max_vertex_index, i + 1,
                            unique_indices \cup {vertex_indices[i]})

\* Polygon::IsValid counting the indices instead of the distinct indices.
Polygon_IsValid_SizeOnly(vertex_indices, max_vertex_index) ==
  /\ Len(vertex_indices) >= 3
  /\ \A i \in 1..Len(vertex_indices) : vertex_indices[i] < max_vertex_index

\* Polygon::IsValid
Polygon_IsValid(vertex_indices, max_vertex_index) ==
  IF Len(vertex_indices) < 3 THEN FALSE
  ELSE Polygon_IsValid_loop(vertex_indices, max_vertex_index, 1, {})

(***************************************************************************)
(* Model: error messages                                                   *)
(***************************************************************************)
\* A message is text built from fixed pieces and at most one line number,
\* one token and one path.
Msg(text, n, what, tok, p) ==
  [text |-> text, line |-> n, what |-> what, token |-> tok, path |-> p]

NoMsg == Msg("", 0, "", <<>>, "")

OpenFailedMsg(p) == Msg("Failed to open file: ", 0, "", <<>>, p)

NoValidDataMsg == Msg("No valid data found in file", 0, "", <<>>, "")

LoadedInvalidMsg == Msg("Loaded data is invalid", 0, "", <<>>, "")

\* The message with the line counted from zero.
LineErrorMsg_ZeroBased(n, e) == Msg("Error at line ", n - 1, e.what, e.token, "")

\* "Error at line " + to_string(line_num) + ": " + e.what()
LineErrorMsg(n, e) == Msg("Error at line ", n, e.what, e.token, "")

(***************************************************************************)
(* Model: the parsers.  An exception is modelled by thrown = TRUE and the  *)
(* pieces of its what() string.                                            *)
(***************************************************************************)
NoException == [what |-> "", token |-> <<>>]

\* ParseVertex with the push_back moved before the count check.
ParseVertex_PushFirst(r, verts) ==
  [thrown |-> r.count # 3, ret |-> r.count = 3,
   vertices |-> Append(verts, r.vals),
   e |-> IF r.count # 3
         THEN [what |-> "Invalid vertex format", token |-> <<>>]
         ELSE NoException]

\* Model::ParseVertex after its sscanf call, r being what sscanf gave:
\* appends to the vertex buffer unless fewer than three fields converted.
ParseVertex_scanned(r, verts) ==
  IF r.count # 3
  THEN [thrown |-> TRUE, ret |-> FALSE, vertices |-> verts,
        e |-> [what |-> "Invalid vertex format", token |-> <<>>]]
  ELSE [thrown |-> FALSE, ret |-> TRUE, vertices |-> Append(verts, r.vals),
        e |-> NoException]

\* Model::ParseVertex
ParseVertex(s, verts) == ParseVertex_scanned(sscanf_v3f(s), verts)

\* The token loop storing the file's 1-based index (idx, not idx - 1).
RECURSIVE ParsePolygon_loop_OneBased(_, _, _, _)
ParsePolygon_loop_OneBased(toks, i, n, p) ==
  IF i > Len(toks) THEN [thrown |-> FALSE, p |-> p, e |-> NoException]
  ELSE LET pos == find(toks[i], "/", 0)
           token == IF pos # 0 - 1 THEN SubSeq(toks[i], 1, pos) ELSE toks[i]
           r == stoul(token)
       IN  IF ~r.ok \/ r.val = 0 \/ size_t_gt(r.val, n)
           THEN [thrown |-> TRUE, p |-> p,
                 e |-> [what |-> "Invalid face index: ", token |-> token]]
           ELSE ParsePolygon_loop_OneBased(toks, i + 1, n, Append(p, r.val))

\* The token loop of Model::ParsePolygon from token i on, with the polygon p
\* built so far and n = vertices_.size().  std::stoul's invalid_argument and
\* the out_of_range thrown for idx == 0 || idx > n are both caught by
\* catch (...) and rethrown as "Invalid face index: " + token, token being
\* the text already cut at its first '/'.
RECURSIVE ParsePolygon_loop(_, _, _, _)
ParsePolygon_loop(toks, i, n, p) ==
  IF i > Len(toks) THEN [thrown |-> FALSE, p |-> p, e |-> NoException]
  ELSE LET pos == find(toks[i], "/", 0)
           token == IF pos # 0 - 1 THEN SubSeq(toks[i], 1, pos) ELSE toks[i]
           r == stoul(token)
       IN  IF ~r.ok \/ r.val = 0 \/ size_t_gt(r.val, n)
           THEN [thrown |-> TRUE, p |-> p,
                 e |-> [what |-> "Invalid face index: ", token |-> token]]
           ELSE ParsePolygon_loop(toks, i + 1, n, Append(p, r.val - 1))

\* ParsePolygon appending whatever tokenized, without asking IsValid.
ParsePolygon_Unchecked(r, verts, polys) ==
  IF r.thrown
  THEN [thrown |-> TRUE, ret |-> FALSE, polygons |-> polys, e |-> r.e]
  ELSE [thrown |-> FALSE, ret |-> TRUE, polygons |-> Append(polys, r.p),
        e |-> NoException]

\* Model::ParsePolygon after its token loop, r being what the loop gave:
\* the polygon is appended only when the whole line tokenized without a
\* throw and Polygon::IsValid accepts it.
ParsePolygon_tokenized(r, verts, polys) ==
  IF r.thrown
  THEN [thrown |-> TRUE, ret |-> FALSE, polygons |-> polys, e |-> r.e]
  ELSE IF Polygon_IsValid(r.p, Len(verts))
  THEN [thrown |-> FALSE, ret |-> TRUE, polygons |-> Append(polys, r.p),
        e |-> NoException]
  ELSE [thrown |-> FALSE, ret |-> FALSE, polygons |-> polys,
        e |-> NoException]

\* Model::ParsePolygon
ParsePolygon(s, verts, polys) ==
  ParsePolygon_tokenized(
    ParsePolygon_loop(Tokens(substr(s, 2)), 1, Len(verts), <<>>), verts, polys)

\* The loop of Model::IsValid over the polygon buffer from position i on.
RECURSIVE Model_IsValid_loop(_, _, _)
Model_IsValid_loop(verts, polys, i) ==
  IF i > Len(polys) THEN TRUE
  ELSE IF ~Polygon_IsValid(polys[i], Len(verts)) THEN FALSE
  ELSE Model_IsValid_loop(verts, polys, i + 1)

\* IsValid as the header documents it: at least one vertex and one polygon.
Model_IsValid_NeedsPolygon(verts, polys) ==
  IF verts = <<>> \/ polys = <<>> THEN FALSE
  ELSE Model_IsValid_loop(verts, polys, 1)

\* Model::IsValid
Model_IsValid(verts, polys) ==
  IF verts = <<>> THEN FALSE ELSE Model_IsValid_loop(verts, polys, 1)

(***************************************************************************)
(* One iteration of the while (std::getline(file, line)) loop of           *)
(* Model::LoadFromFile on the raw line ln.  st holds the fields of the     *)
(* Model and the locals line_num and has_valid_data.                       *)
(***************************************************************************)
SetError(st, code, message) ==
  [st EXCEPT !.last_error_ = code, !.last_error_str_ = message]

\* The try block around ParseVertex in which an accepted vertex does not
\* count as valid data.
TryParseVertex_IsNoData(st1, r) ==
  IF r.thrown
  THEN SetError([st1 EXCEPT !.vertices_ = r.vertices],
                kInvalidData, LineErrorMsg(st1.line_num, r.e))
  ELSE [st1 EXCEPT !.vertices_ = r.vertices]

\* The try block around ParseVertex with its catch, r being what ParseVertex
\* did: a throw is recorded with the line number, a true return sets
\* has_valid_data.
TryParseVertex(st1, r) ==
  IF r.thrown
  THEN SetError([st1 EXCEPT !.vertices_ = r.vertices],
                kInvalidData, LineErrorMsg(st1.line_num, r.e))
  ELSE [st1 EXCEPT !.vertices_ = r.vertices,
                   !.has_valid_data = IF r.ret THEN TRUE ELSE @]

\* The same around ParsePolygon.
TryParsePolygon(st1, r) ==
  IF r.thrown
  THEN SetError([st1 EXCEPT !.polygons_ = r.polygons],
                kInvalidData, LineErrorMsg(st1.line_num, r.e))
  ELSE [st1 EXCEPT !.polygons_ = r.polygons,
                   !.has_valid_data = IF r.ret THEN TRUE ELSE @]

\* A loop body that reports a line of an unknown record type as an error.
ProcessLine_OtherIsError(st, ln) ==
  LET s == LTrim(ln)
      st1 == [st EXCEPT !.line_num = @ + 1]
  IN  IF s = <<>> \/ s[1] = "#" THEN st1
      ELSE IF starts_with(s, <<"v", " ">>)
      THEN TryParseVertex(st1, ParseVertex(s, st1.vertices_))
      ELSE IF starts_with(s, <<"f", " ">>)
      THEN TryParsePolygon(st1, ParsePolygon(s, st1.vertices_, st1.polygons_))
      ELSE SetError(st1, kInvalidData,
                    LineErrorMsg(st1.line_num,
                                 [what |-> "Unknown record", token |-> <<>>]))

\* The loop body: the line is counted and stripped of leading whitespace;
\* an empty line or a comment is skipped, a "v " or "f " record is parsed,
\* any other line falls through.
ProcessLine(st, ln) ==
  LET s == LTrim(ln)
      st1 == [st EXCEPT !.line_num = @ + 1]
  IN  IF s = <<>> \/ s[1] = "#" THEN st1
      ELSE IF starts_with(s, <<"v", " ">>)
      THEN TryParseVertex(st1, ParseVertex(s, st1.vertices_))
      ELSE IF starts_with(s, <<"f", " ">>)
      THEN TryParsePolygon(st1, ParsePolygon(s, st1.vertices_, st1.polygons_))
      ELSE st1

\* Finish keeping an error a line already recorded.
Finish_KeepsLineError(st) ==
  IF ~st.has_valid_data
  THEN IF st.last_error_ # kSuccess THEN [st EXCEPT !.ret = FALSE]
       ELSE [SetError(st, kNoValidData, NoValidDataMsg) EXCEPT !.ret = FALSE]
  ELSE IF ~Model_IsValid(st.vertices_, st.polygons_)
  THEN [SetError(st, kInvalidData, LoadedInvalidMsg) EXCEPT !.ret = FALSE]
  ELSE [st EXCEPT !.ret = TRUE]

\* An end of LoadFromFile that reports success with a cleared error.
Finish_ClearsOnSuccess(st) ==
  IF ~st.has_valid_data
  THEN [SetError(st, kNoValidData, NoValidDataMsg) EXCEPT !.ret = FALSE]
  ELSE IF ~Model_IsValid(st.vertices_, st.polygons_)
  THEN [SetError(st, kInvalidData, LoadedInvalidMsg) EXCEPT !.ret = FALSE]
  ELSE [SetError(st, kSuccess, NoMsg) EXCEPT !.ret = TRUE]

\* The end of Model::LoadFromFile, after the last line: the return value and
\* the final error.
Finish(st) ==
  IF ~st.has_valid_data
  THEN [SetError(st, kNoValidData, NoValidDataMsg) EXCEPT !.ret = FALSE]
  ELSE IF ~Model_IsValid(st.vertices_, st.polygons_)
  THEN [SetError(st, kInvalidData, LoadedInvalidMsg) EXCEPT !.ret = FALSE]
  ELSE [st EXCEPT !.ret = TRUE]

\* The start of Model::LoadFromFile: ClearErrors, both buffers cleared; the
\* locals as the loop finds them.
Cleared ==
  [vertices_ |-> <<>>, polygons_ |-> <<>>, last_error_ |-> kSuccess,
   last_error_str_ |-> NoMsg, line_num |-> 0, has_valid_data |-> FALSE,
   ret |-> FALSE]

\* The open-failure branch returning false without SetError.
OpenFailed_NoError(st, p) == st

\* The branch of Model::LoadFromFile taken when the file does not open.
OpenFailed(st, p) == SetError(st, kFileOpenError, OpenFailedMsg(p))

\* The whole loop on the lines of a file, from the state st.
RECURSIVE ReadLines(_, _)
ReadLines(st, lines) ==
  IF lines = <<>> THEN st
  ELSE ReadLines(ProcessLine(st, Head(lines)), Tail(lines))

\* Model::LoadFromFile on a file that opens and holds `lines`.
LoadLines(lines) == Finish(ReadLines(Cleared, lines))

(***************************************************************************)
(* Model::GetEdges                                                         *)
(***************************************************************************)
\* The inner loop inserting (start, end) as listed, without ordering the pair.
RECURSIVE GetEdges_poly_AsListed(_, _, _)
GetEdges_poly_AsListed(vertex_indices, i, unique_edges) ==
  IF i >= Len(vertex_indices) THEN unique_edges
  ELSE LET start == vertex_indices[i + 1]
           end == vertex_indices[((i + 1) % Len(vertex_indices)) + 1]
       IN  IF start = end
           THEN GetEdges_poly_AsListed(vertex_indices, i + 1, unique_edges)
           ELSE GetEdges_poly_AsListed(vertex_indices, i + 1,
                  unique_edges \cup {<<start, end>>})

\* The inner loop without the test that skips start == end.
RECURSIVE GetEdges_poly_KeepsLoops(_, _, _)
GetEdges_poly_KeepsLoops(vertex_indices, i, unique_edges) ==
  IF i >= Len(vertex_indices) THEN unique_edges
  ELSE LET start == vertex_indices[i + 1]
           end == vertex_indices[((i + 1) % Len(vertex_indices)) + 1]
       IN  GetEdges_poly_KeepsLoops(vertex_indices, i + 1,
             unique_edges \cup
               {IF start < end THEN <<start, end>> ELSE <<end, start>>})

\* The inner loop over one polygon from position i (0-based) on.
RECURSIVE GetEdges_poly(_, _, _)
GetEdges_poly(vertex_indices, i, unique_edges) ==
  IF i >= Len(vertex_indices) THEN unique_edges
  ELSE LET start == vertex_indices[i + 1]
           end == vertex_indices[((i + 1) % Len(vertex_indices)) + 1]
       IN  IF start = end THEN GetEdges_poly(vertex_indices, i + 1, unique_edges)
           ELSE GetEdges_poly(vertex_indices, i + 1,
                  unique_edges \cup
                    {IF start < end THEN <<start, end>> ELSE <<end, start>>})

\* The outer loop over the polygon buffer from position k on.
RECURSIVE GetEdges_loop(_, _, _)
GetEdges_loop(polys, k, unique_edges) ==
  IF k > Len(polys) THEN unique_edges
  ELSE IF Len(polys[k]) < 2 THEN GetEdges_loop(polys, k + 1, unique_edges)
  ELSE GetEdges_loop(polys, k + 1, GetEdges_poly(polys[k], 0, unique_edges))

\* pair < pair as std::set<std::pair<size_t, size_t>> orders its elements.
PairLess(a, b) == a[1] < b[1] \/ (a[1] = b[1] /\ a[2] < b[2])

\* {unique_edges.begin(), unique_edges.end()}: the set in increasing order.
RECURSIVE SetToVector(_)
SetToVector(S) ==
  IF S = {} THEN <<>>
  ELSE LET least == CHOOSE a \in S : \A b \in S \ {a} : PairLess(a, b)
       IN  <<least>> \o SetToVector(S \ {least})

\* Model::GetEdges: the vector it returns.
GetEdges(polys) == SetToVector(GetEdges_loop(polys, 1, {}))

\* Model::GetEdgeCount
GetEdgeCount(polys) == Len(GetEdges(polys))

(***************************************************************************)
(* Model::NormalizeModel                                                   *)
(***************************************************************************)
\* 0.5f, 1.0f, 0 and the literal 1e-6f
Half == <<1, 0 - 1>>

One == <<1, 0>>

Zero == <<0, 0>>

RadiusGuard == <<8796093, 0 - 43>>

\* The loop that finds the bounding box: min and max after the first n
\* vertices, both starting as vertices_[0].
RECURSIVE NormalizeModel_box(_, _)
NormalizeModel_box(verts, n) ==
  IF n = 0 THEN [min |-> verts[1], max |-> verts[1]]
  ELSE [NormalizeModel_box(verts, n - 1) EXCEPT
          !.min = <<fmin(@[1], verts[n][1]), fmin(@[2], verts[n][2]),
                    fmin(@[3], verts[n][3])>>,
          !.max = <<fmax(@[1], verts[n][1]), fmax(@[2], verts[n][2]),
                    fmax(@[3], verts[n][3])>>]

\* center_x, center_y, center_z
NormalizeModel_center(box) ==
  <<fmul(fadd(box.min[1], box.max[1]), Half),
    fmul(fadd(box.min[2], box.max[2]), Half),
    fmul(fadd(box.min[3], box.max[3]), Half)>>

\* radius, before the guard against a radius near zero.
NormalizeModel_diagonal(dx, dy, dz) ==
  fsqrt(fadd(fadd(fmul(dx, dx), fmul(dy, dy)), fmul(dz, dz)))

NormalizeModel_radius(box) ==
  fmul(NormalizeModel_diagonal(fsub(box.max[1], box.min[1]),
                               fsub(box.max[2], box.min[2]),
                               fsub(box.max[3], box.min[3])), Half)

\* The loop that recenters and rescales every vertex.
NormalizeModel_apply(verts, center, scale_factor) ==
  SubSeq([i \in 1..Len(verts) |->
            <<fmul(fsub(verts[i][1], center[1]), scale_factor),
              fmul(fsub(verts[i][2], center[2]), scale_factor),
              fmul(fsub(verts[i][3], center[3]), scale_factor)>>],
         1, Len(verts))

\* Model::NormalizeModel on the vertex buffer.
\* Steps 2 to 4 with the radius of step 3: the guard against a radius near
\* zero, scale_factor = 1.0f / radius, and the loop.
NormalizeModel_scaled(verts, box, radius) ==
  NormalizeModel_apply(verts, NormalizeModel_center(box),
                       fdiv(One, IF flt(radius, RadiusGuard) THEN One
                                 ELSE radius))

\* Steps 2 to 4 with the bounding box of step 1.
NormalizeModel_boxed(verts, box) ==
  NormalizeModel_scaled(verts, box, NormalizeModel_radius(box))

NormalizeModel(verts) ==
  IF verts = <<>> THEN verts
  ELSE NormalizeModel_boxed(verts, NormalizeModel_box(verts, Len(verts)))

(***************************************************************************)
(* MoveCommand, RotateCommand, ScaleCommand: what Execute does to the      *)
(* vertex buffer of the Model the manager holds.                           *)
(***************************************************************************)
\* The loop adding dx to all three coordinates.
MoveVertices_OnlyDx(verts, dx, dy, dz) ==
  SubSeq([i \in 1..Len(verts) |->
            <<fadd(verts[i][1], dx), fadd(verts[i][2], dx),
              fadd(verts[i][3], dx)>>], 1, Len(verts))

\* The loop of MoveCommand::Execute.
MoveVertices(verts, dx, dy, dz) ==
  SubSeq([i \in 1..Len(verts) |->
            <<fadd(verts[i][1], dx), fadd(verts[i][2], dy),
              fadd(verts[i][3], dz)>>], 1, Len(verts))

\* The loop of ScaleCommand::Execute.
ScaleVertices_loop(verts, factor) ==
  SubSeq([i \in 1..Len(verts) |->
            <<fmul(verts[i][1], factor), fmul(verts[i][2], factor),
              fmul(verts[i][3], factor)>>], 1, Len(verts))

\* ScaleCommand::Execute without its first line.
ScaleVertices_NoGuard(verts, factor) == ScaleVertices_loop(verts, factor)

\* ScaleCommand::Execute from its first line: factor_ <= 0.0f returns.
ScaleVertices(verts, factor) ==
  IF ~flt(Zero, factor) THEN verts ELSE ScaleVertices_loop(verts, factor)

\* const float deg_to_rad = M_PI / 180.0f
deg_to_rad == <<9370165, 0 - 29>>

\* The angles in radians the commands below turn by: 45, 90 and 180 degrees
\* times deg_to_rad.
Rad45 == <<13176795, 0 - 24>>

Rad90 == <<13176795, 0 - 23>>

Rad180 == <<13176795, 0 - 22>>

\* cos(double) and sin(double) of <cmath> on the float angle converted to
\* double: the binary64 values the C library returns for these angles.
cos(angle) ==
  LET a == <<Magnitude(angle), angle[2]>>
  IN  CASE a = Rad45 -> Dyadic(FALSE, <<1715, 3174, 971, 3393, 2>>, 0 - 50)
        [] a = Rad90 -> Dyadic(TRUE, <<947, 3531, 2419, 3550, 5>>, 0 - 75)
        [] a = Rad180 -> Dyadic(TRUE, <<4079, 4095, 4095, 4095, 15>>, 0 - 52)

sin(angle) ==
  LET a == <<Magnitude(angle), angle[2]>>
      s == CASE a = Rad45 -> Dyadic(FALSE, <<255, 1626, 3895, 1284, 11>>, 0 - 52)
             [] a = Rad90 -> Dyadic(FALSE, <<4087, 4095, 4095, 4095, 31>>, 0 - 53)
             [] a = Rad180 -> Dyadic(TRUE, <<1891, 2966, 743, 3005, 11>>, 0 - 75)
  IN  IF angle[1] < 0 THEN DNeg(s) ELSE s

\* RotateCommand::RotatePair: the new <<coord1, coord2>>.  The products and
\* the sum are double operations; the assignment to float p1, p2 rounds.
RotatePair(coord1, coord2, angle) ==
  LET a == Exact(coord1)
      b == Exact(coord2)
      p1 == ToDouble(DSub(ToDouble(DMul(a, cos(angle))),
                          ToDouble(DMul(b, sin(angle)))))
      p2 == ToDouble(DAdd(ToDouble(DMul(a, sin(angle))),
                          ToDouble(DMul(b, cos(angle)))))
  IN  <<ToFloat(p1), ToFloat(p2)>>

\* if (angle != 0) RotatePair(vertex[i], vertex[j], angle): the vertex with
\* coordinates i and j replaced by the turned pair.
RotatePair_put(v, i, j, pair) == [v EXCEPT ![i] = pair[1], ![j] = pair[2]]

RotatePair_on(v, i, j, angle) ==
  IF angle # Zero THEN RotatePair_put(v, i, j, RotatePair(v[i], v[j], angle))
  ELSE v

\* The loop body turning the pair (x, z) about Y instead of (z, x).
RotateVertex_PairXZ(v, ax, ay, az) ==
  RotatePair_on(RotatePair_on(RotatePair_on(v, 2, 3, ax), 1, 3, ay), 1, 2, az)

\* The loop body turning about Z first, then Y, then X.
RotateVertex_ZYX(v, ax, ay, az) ==
  RotatePair_on(RotatePair_on(RotatePair_on(v, 1, 2, az), 3, 1, ay), 2, 3, ax)

\* The body of the loop of RotateVertices on one vertex: (y, z) by ax, then
\* (z, x) by ay, then (x, y) by az.
RotateVertex(v, ax, ay, az) ==
  RotatePair_on(RotatePair_on(RotatePair_on(v, 2, 3, ax), 3, 1, ay), 1, 2, az)

\* The loop of RotateVertices.
RotateVertices_loop(verts, ax, ay, az) ==
  SubSeq([i \in 1..Len(verts) |-> RotateVertex(verts[i], ax, ay, az)],
         1, Len(verts))

\* RotateCommand::RotateVertices with inverse = false: the angles in degrees.
RotateVertices(verts, angle_x, angle_y, angle_z) ==
  RotateVertices_loop(verts, fmul(fmul(angle_x, deg_to_rad), One),
                      fmul(fmul(angle_y, deg_to_rad), One),
                      fmul(fmul(angle_z, deg_to_rad), One))

(***************************************************************************)
(* State                                                                   *)
(***************************************************************************)
VARIABLES
  vertices_,        \* Model::vertices_: sequence of <<x, y, z>>
  polygons_,        \* Model::polygons_: sequence of 0-based index sequences
  last_error_,      \* Model::last_error_
  last_error_str_,  \* Model::last_error_str_
  path_file_,       \* Model::path_file_: [failed, path]
  pc,               \* "idle" (constructed), "parsing" (in the loop), "done"
  file,             \* the lines std::getline has returned in this load
  is_open,          \* file.is_open() of this load
  line_num,         \* local of LoadFromFile
  has_valid_data,   \* local of LoadFromFile
  ret,              \* the value LoadFromFile returned (when pc = "done")
  had_data,         \* whether a buffer was non-empty when the load was called
  current_model_,   \* ModelManager::current_model_: "nullptr" or "model"
  caller,           \* who called LoadFromFile: the manager's method, or ""
  normalize_calls,  \* NormalizeModel calls made by the last load
  loaded,           \* the vertex buffer as the last load call left it
  commands,         \* the commands executed since the last load call
  gui               \* MainWindow and its GLWidget: see NoWindow

vars ==
  <<vertices_, polygons_, last_error_, last_error_str_, path_file_, pc, file,
    is_open, line_num, has_valid_data, ret, had_data, current_model_, caller,
    normalize_calls, loaded, commands, gui>>

\* Most commands executed between two loads.
MaxCommands == 3

\* The paths a load is called with.
Paths == {"model.obj"}

\* The record ProcessLine and Finish work on.
Cur ==
  [vertices_ |-> vertices_, polygons_ |-> polygons_,
   last_error_ |-> last_error_, last_error_str_ |-> last_error_str_,
   line_num |-> line_num, has_valid_data |-> has_valid_data, ret |-> ret]

Store(st) ==
  /\ vertices_' = st.vertices_
  /\ polygons_' = st.polygons_
  /\ last_error_' = st.last_error_
  /\ last_error_str_' = st.last_error_str_
  /\ line_num' = st.line_num
  /\ has_valid_data' = st.has_valid_data
  /\ ret' = st.ret

\* The window after MainWindow's constructor.  clicked: the load call
\* running, or run last, was made by onLoadButtonClicked.  vertices_ is
\* GLWidget::vertices_, a pointer: "nullptr", "held" (the vertex buffer of
\* the Model the manager holds) or "deleted" (the buffer of a Model that was
\* deleted).  edges_ is GLWidget::edges_, a copy.  filePathEdit, infoFileName,
\* infoVertices and infoEdges are the texts of the ui; warning is the text
\* of the QMessageBox the last click showed; read is what the last paintGL
\* dereferenced.
NoWindow ==
  [clicked |-> FALSE, vertices_ |-> "nullptr", edges_ |-> <<>>,
   filePathEdit |-> "", infoFileName |-> "-", infoVertices |-> 0,
   infoEdges |-> 0, warning |-> NoMsg, read |-> "nothing"]

\* A default-constructed Model.
Init ==
  /\ vertices_ = <<>>
  /\ polygons_ = <<>>
  /\ last_error_ = kSuccess
  /\ last_error_str_ = NoMsg
  /\ path_file_ = [failed |-> FALSE, path |-> ""]
  /\ pc = "idle"
  /\ file = <<>>
  /\ is_open = FALSE
  /\ line_num = 0
  /\ has_valid_data = FALSE
  /\ ret = FALSE
  /\ had_data = FALSE
  /\ current_model_ = "nullptr"
  /\ caller = ""
  /\ normalize_calls = 0
  /\ loaded = <<>>
  /\ commands = <<>>
  /\ gui = NoWindow

\* LoadFromFile(p) without vertices_.clear() and polygons_.clear().
LoadBegin_KeepsBuffers(p, opens) ==
  /\ pc \in {"idle", "done"}
  /\ had_data' = (vertices_ # <<>> \/ polygons_ # <<>>)
  /\ file' = <<>>
  /\ is_open' = opens
  /\ LET kept == [Cleared EXCEPT !.vertices_ = vertices_,
                                 !.polygons_ = polygons_]
     IN  IF opens
         THEN /\ Store(kept)
              /\ path_file_' = [failed |-> FALSE, path |-> p]
              /\ pc' = "parsing"
         ELSE /\ Store(OpenFailed(kept, p))
              /\ path_file_' = [failed |-> TRUE, path |-> p]
              /\ pc' = "done"
  /\ caller' = ""
  /\ normalize_calls' = 0
  /\ loaded' = <<>>
  /\ commands' = <<>>
  /\ UNCHANGED <<current_model_, gui>>

\* LoadFromFile(p) on the Model up to the loop, called directly (as the
\* tests of Model do, or through GetModel()): opens tells whether the file
\* opens.
LoadBegin(p, opens) ==
  /\ pc \in {"idle", "done"}
  /\ had_data' = (vertices_ # <<>> \/ polygons_ # <<>>)
  /\ file' = <<>>
  /\ is_open' = opens
  /\ IF opens
     THEN /\ Store(Cleared)
          /\ path_file_' = [failed |-> FALSE, path |-> p]
          /\ pc' = "parsing"
     ELSE /\ Store(OpenFailed(Cleared, p))
          /\ path_file_' = [failed |-> TRUE, path |-> p]
          /\ pc' = "done"
  /\ caller' = ""
  /\ normalize_calls' = 0
  /\ loaded' = <<>>
  /\ commands' = <<>>
  /\ UNCHANGED <<current_model_, gui>>

\* GLWidget::vertices_ once the manager has deleted the Model it holds: a
\* pointer to that Model's buffer now points to freed memory.
AfterDelete(ptr) == IF ptr = "held" THEN "deleted" ELSE ptr

\* A manager that keeps the Model it holds when the file does not open.
ManagerLoad_KeepsOnFailure(p, opens, by, clicked) ==
  /\ pc \in {"idle", "done"}
  /\ had_data' = FALSE
  /\ file' = <<>>
  /\ is_open' = opens
  /\ IF opens
     THEN /\ Store(Cleared)
          /\ path_file_' = [failed |-> FALSE, path |-> p]
          /\ pc' = "parsing"
          /\ current_model_' = "model"
          /\ gui' = [gui EXCEPT !.clicked = clicked,
                                !.vertices_ = AfterDelete(@), !.warning = NoMsg]
     ELSE /\ Store([Cur EXCEPT !.ret = FALSE])
          /\ pc' = "done"
          /\ gui' = [gui EXCEPT !.clicked = clicked, !.warning = NoMsg]
          /\ UNCHANGED <<path_file_, current_model_>>
  /\ caller' = by
  /\ normalize_calls' = 0
  /\ loaded' = <<>>
  /\ commands' = <<>>

\* ModelManager::LoadModel(p) (by = "LoadModel") or LoadModelForTest(p) up to
\* the loop of LoadFromFile: the Model held is deleted and a new one made,
\* whose LoadFromFile is called.  clicked: the call comes from
\* MainWindow::onLoadButtonClicked, which goes on when it returns; when the
\* file does not open it returns false at once and the handler does nothing
\* more.
ManagerLoad(p, opens, by, clicked) ==
  /\ pc \in {"idle", "done"}
  /\ current_model_' = "model"
  /\ had_data' = FALSE
  /\ file' = <<>>
  /\ is_open' = opens
  /\ IF opens
     THEN /\ Store(Cleared)
          /\ path_file_' = [failed |-> FALSE, path |-> p]
          /\ pc' = "parsing"
     ELSE /\ Store(OpenFailed(Cleared, p))
          /\ path_file_' = [failed |-> TRUE, path |-> p]
          /\ pc' = "done"
  /\ caller' = by
  /\ normalize_calls' = 0
  /\ loaded' = <<>>
  /\ commands' = <<>>
  /\ gui' = [gui EXCEPT !.clicked = clicked, !.vertices_ = AfterDelete(@),
                        !.warning = NoMsg]

\* The call made by a test or another caller that is not the window.
ManagerLoadBegin(p, opens, by) == ManagerLoad(p, opens, by, FALSE)

\* MainWindow::onLoadButtonClicked with the file p chosen in the dialog, up
\* to the loop of LoadFromFile (Controller::LoadModelFromFile calls
\* LoadModel).
onLoadButtonClicked(p, opens) == ManagerLoad(p, opens, "LoadModel", TRUE)

\* std::getline returns the line ln and the loop body runs on it.
GetLine(ln) ==
  /\ pc = "parsing"
  /\ Len(file) < MaxLines
  /\ file' = Append(file, ln)
  /\ Store(ProcessLine(Cur, ln))
  /\ UNCHANGED <<path_file_, pc, is_open, had_data, current_model_, caller,
                 normalize_calls, loaded, commands, gui>>

\* A caller that normalizes whatever the flag and whoever it is.
AfterLoadFromFile_Always(st, by) ==
  [st |-> [st EXCEPT !.vertices_ = NormalizeModel(@)], calls |-> 1]

\* What the caller of LoadFromFile does with the flag it returned:
\* LoadModel normalizes if (flag); LoadModelForTest and a direct caller do
\* nothing.  calls is the number of NormalizeModel calls made.
AfterLoadFromFile(st, by) ==
  IF by = "LoadModel" /\ st.ret
  THEN [st |-> [st EXCEPT !.vertices_ = NormalizeModel(@)], calls |-> 1]
  ELSE [st |-> st, calls |-> 0]

\* MainWindow::onLoadButtonClicked after LoadModelFromFile has returned
\* st.ret, for the window g, the chosen path and the pointer GetModel()
\* gives.  With ok and a Model: the path is shown, the widget is handed the
\* address of the vertex buffer and a copy of GetEdges(), and
\* updateInfoPanelFromModel shows the counts.  The else belongs to
\* if (model): a warning (the source's text is in Russian, given here in
\* English) and a cleared panel.  Without ok nothing is done.
onLoadButtonClicked_after(g, st, filePath, model) ==
  IF ~st.ret THEN g
  ELSE IF model # "nullptr"
  THEN [g EXCEPT !.filePathEdit = filePath,
                 !.vertices_ = "held",
                 !.edges_ = GetEdges(st.polygons_),
                 !.infoVertices = Len(st.vertices_),
                 !.infoEdges = GetEdgeCount(st.polygons_),
                 !.infoFileName =
                   IF Len(st.vertices_) = 0 /\ GetEdgeCount(st.polygons_) = 0
                   THEN "-" ELSE filePath]
  ELSE [g EXCEPT !.warning = Msg("Could not load the model", 0, "", <<>>, ""),
                 !.filePathEdit = "",
                 !.infoFileName = "-", !.infoVertices = 0, !.infoEdges = 0]

\* std::getline reaches the end of the file: the checks after the loop, the
\* return, and what the caller does next.
LoadEnd ==
  /\ pc = "parsing"
  /\ \E r \in {AfterLoadFromFile(Finish(Cur), caller)} :
       /\ Store(r.st)
       /\ normalize_calls' = r.calls
       /\ loaded' = r.st.vertices_
       /\ gui' = IF gui.clicked
                 THEN onLoadButtonClicked_after(gui, r.st, path_file_.path,
                                                current_model_)
                 ELSE gui
  /\ pc' = "done"
  /\ UNCHANGED <<path_file_, file, is_open, had_data, current_model_, caller,
                 commands>>

\* A command as the history records it: held tells whether GetModel() was
\* not null, before is the vertex buffer the command found.
Command(name, args) ==
  [name |-> name, args |-> args, held |-> current_model_ # "nullptr",
   before |-> vertices_]

\* Execute() using the pointer GetModel() returned without testing it: with
\* no Model held the call fails.
MoveCommand_Execute_NoNullTest(dx, dy, dz) ==
  /\ pc \in {"idle", "done"}
  /\ Len(commands) < MaxCommands
  /\ commands' = Append(commands, Command("Move", <<dx, dy, dz>>))
  /\ pc' = IF current_model_ = "nullptr" THEN "failed" ELSE pc
  /\ vertices_' = MoveVertices(vertices_, dx, dy, dz)
  /\ UNCHANGED <<polygons_, last_error_, last_error_str_, path_file_, file,
                 is_open, line_num, has_valid_data, ret, had_data,
                 current_model_, caller, normalize_calls, loaded, gui>>

\* MoveCommand(dx, dy, dz).Execute()
MoveCommand_Execute(dx, dy, dz) ==
  /\ pc \in {"idle", "done"}
  /\ Len(commands) < MaxCommands
  /\ commands' = Append(commands, Command("Move", <<dx, dy, dz>>))
  /\ vertices_' = IF current_model_ # "nullptr"
                  THEN MoveVertices(vertices_, dx, dy, dz) ELSE vertices_
  /\ UNCHANGED <<polygons_, last_error_, last_error_str_, path_file_, pc, file,
                 is_open, line_num, has_valid_data, ret, had_data,
                 current_model_, caller, normalize_calls, loaded, gui>>

\* RotateCommand(angle_x, angle_y, angle_z).Execute()
RotateCommand_Execute(angle_x, angle_y, angle_z) ==
  /\ pc \in {"idle", "done"}
  /\ Len(commands) < MaxCommands
  /\ commands' = Append(commands, Command("Rotate", <<angle_x, angle_y, angle_z>>))
  /\ vertices_' = IF current_model_ # "nullptr"
                  THEN RotateVertices(vertices_, angle_x, angle_y, angle_z)
                  ELSE vertices_
  /\ UNCHANGED <<polygons_, last_error_, last_error_str_, path_file_, pc, file,
                 is_open, line_num, has_valid_data, ret, had_data,
                 current_model_, caller, normalize_calls, loaded, gui>>

\* A ScaleCommand that calls ClearErrors() on the Model it changes.
ScaleCommand_Execute_ClearsErrors(factor) ==
  /\ pc \in {"idle", "done"}
  /\ Len(commands) < MaxCommands
  /\ commands' = Append(commands, Command("Scale", <<factor>>))
  /\ vertices_' = IF current_model_ # "nullptr"
                  THEN ScaleVertices(vertices_, factor) ELSE vertices_
  /\ last_error_' = kSuccess
  /\ last_error_str_' = NoMsg
  /\ UNCHANGED <<polygons_, path_file_, pc, file,
                 is_open, line_num, has_valid_data, ret, had_data,
                 current_model_, caller, normalize_calls, loaded, gui>>

\* ScaleCommand(factor).Execute()
ScaleCommand_Execute(factor) ==
  /\ pc \in {"idle", "done"}
  /\ Len(commands) < MaxCommands
  /\ commands' = Append(commands, Command("Scale", <<factor>>))
  /\ vertices_' = IF current_model_ # "nullptr"
                  THEN ScaleVertices(vertices_, factor) ELSE vertices_
  /\ UNCHANGED <<polygons_, last_error_, last_error_str_, path_file_, pc, file,
                 is_open, line_num, has_valid_data, ret, had_data,
                 current_model_, caller, normalize_calls, loaded, gui>>

\* model.NormalizeModel() called directly on the Model (the method is
\* public), recorded in the history like a command.
NormalizeModel_Call ==
  /\ pc \in {"idle", "done"}
  /\ Len(commands) < MaxCommands
  /\ commands' = Append(commands, Command("Normalize", <<>>))
  /\ vertices_' = NormalizeModel(vertices_)
  /\ UNCHANGED <<polygons_, last_error_, last_error_str_, path_file_, pc, file,
                 is_open, line_num, has_valid_data, ret, had_data,
                 current_model_, caller, normalize_calls, loaded, gui>>

\* GLWidget::paintGL, run by the event loop between two handlers (the timer
\* asks for it every 16 ms).  drawLines dereferences vertices_ when it is
\* not null and edges_ is not empty; drawVertex when it is not null and the
\* setting display_vertexes_ is on.  Dereferencing the buffer of a deleted
\* Model is undefined: the program may crash (pc = "failed") or go on.
paintGL ==
  /\ pc \in {"idle", "done"}
  /\ \E display_vertexes_ \in BOOLEAN, crash \in BOOLEAN :
       LET deref == /\ gui.vertices_ # "nullptr"
                    /\ (gui.edges_ # <<>> \/ display_vertexes_)
       IN  /\ gui' = [gui EXCEPT !.read = IF deref THEN gui.vertices_
                                          ELSE "nothing"]
           /\ pc' = IF deref /\ gui.vertices_ = "deleted" /\ crash
                    THEN "failed" ELSE pc
  /\ UNCHANGED <<vertices_, polygons_, last_error_, last_error_str_,
                 path_file_, file, is_open, line_num, has_valid_data, ret,
                 had_data, current_model_, caller, normalize_calls, loaded,
                 commands>>

(***************************************************************************)
(* Input lines.  The first group is what the tests' fixture files hold     *)
(* (valid_test.obj, invalid_test.obj, comments_test.obj) and the record    *)
(* kinds the loader tells apart.                                           *)
(***************************************************************************)
LBlank == <<>>

LComment == <<"#", " ", "c">>

\* A record type the loader does not know: starts with v but not with "v ".
LOther == <<"v", "n", " ", "1">>

LVertA == <<"v", " ", "1", " ", "2", " ", "3">>

\* Indented, with a negative coordinate.
LVertB == <<" ", "v", " ", "4", " ", "-", "5", " ", "6">>

\* "v 1.0 2.0" of invalid_test.obj: too few coordinates.
LVertShort == <<"v", " ", "1", " ", "2">>

LFace == <<"f", " ", "1", " ", "2", " ", "3">>

\* "f 1 1 1" of comments_test.obj.
LFaceDup == <<"f", " ", "1", " ", "1", " ", "1">>

\* A face with texture/normal references, in another vertex order.
LFaceSlash ==
  <<"f", " ", "3", "/", "1", " ", "2", "/", "/", "1", " ", "1", "/", "2">>

Lines ==
  {LBlank, LComment, LVertA, LVertB, LVertShort, LFace, LFaceDup, LFaceSlash}

\* Face records, by the kind of their index tokens.
LFaceTwo == <<"f", " ", "1", " ", "2">>

LFaceZero == <<"f", " ", "0", " ", "1", " ", "2">>

\* "f -1 2 3" of invalid_test.obj.
LFaceNeg == <<"f", " ", "-", "1", " ", "2", " ", "3">>

\* "f a b c" of invalid_test.obj.
LFaceAlpha == <<"f", " ", "a", " ", "b", " ", "c">>

\* An index token that starts with a digit and goes on with a letter.
LFaceTrail == <<"f", " ", "1", "x", " ", "2", " ", "3">>

FaceLines ==
  {LVertA, LFace, LFaceDup, LFaceZero, LFaceNeg, LFaceAlpha, LFaceTrail}

\* Vertex records, by the kind of their coordinate tokens.
\* "v abc def ghi" of invalid_test.obj.
LVertAlpha == <<"v", " ", "a", " ", "b", " ", "c">>

LVertMid == <<"v", " ", "1", " ", "x", " ", "3">>

LVertFour == <<"v", " ", "1", " ", "2", " ", "3", " ", "4">>

LVertTrail == <<"v", " ", "1", " ", "2", " ", "3", "x">>

VertexLines ==
  {LOther, LVertA, LVertShort, LVertAlpha, LVertMid, LVertFour, LVertTrail}

Begin == \E p \in Paths, opens \in BOOLEAN : LoadBegin(p, opens)

Next ==
  \/ Begin
  \/ \E ln \in Lines : GetLine(ln)
  \/ LoadEnd

Spec == Init /\ [][Next]_vars

\* Files whose records are all well formed.
WellFormedLines == {LVertA, LVertB, LFace, LFaceDup, LFaceSlash}

NextWell ==
  \/ Begin
  \/ \E ln \in WellFormedLines : GetLine(ln)
  \/ LoadEnd

SpecWell == Init /\ [][NextWell]_vars

\* Files with malformed records among blank lines, comments and good records.
FailingLines == {LBlank, LComment, LVertA, LVertShort, LFace}

NextFail ==
  \/ Begin
  \/ \E ln \in FailingLines : GetLine(ln)
  \/ LoadEnd

SpecFail == Init /\ [][NextFail]_vars

\* Faces with too few distinct indices among good and malformed records.
DegenerateLines == {LVertA, LVertShort, LFace, LFaceDup, LFaceTwo}

NextDrop ==
  \/ Begin
  \/ \E ln \in DegenerateLines : GetLine(ln)
  \/ LoadEnd

SpecDrop == Init /\ [][NextDrop]_vars

NextFace ==
  \/ Begin
  \/ \E ln \in FaceLines : GetLine(ln)
  \/ LoadEnd

SpecFace == Init /\ [][NextFace]_vars

NextVertex ==
  \/ Begin
  \/ \E ln \in VertexLines : GetLine(ln)
  \/ LoadEnd

SpecVertex == Init /\ [][NextVertex]_vars

(***************************************************************************)
(* Loads through the ModelManager and the commands.                        *)
(***************************************************************************)
LoadModel == \E p \in Paths, opens \in BOOLEAN : ManagerLoadBegin(p, opens, "LoadModel")

LoadModelForTest ==
  \E p \in Paths, opens \in BOOLEAN : ManagerLoadBegin(p, opens, "LoadModelForTest")

\* Meshes with accepted and rejected faces, loaded by LoadModel, then moved, rotated and scaled.
MeshLines == {LVertA, LFace, LFaceDup}

NextMesh ==
  \/ LoadModel
  \/ \E ln \in MeshLines : GetLine(ln)
  \/ LoadEnd
  \/ MoveCommand_Execute(FloatOfInt(1), FloatOfInt(0 - 2), FloatOfInt(0))
  \/ RotateCommand_Execute(FloatOfInt(90), FloatOfInt(0), FloatOfInt(0))
  \/ ScaleCommand_Execute(FloatOfInt(2))

SpecMesh == Init /\ [][NextMesh]_vars

\* "f 1 2 3 4" of ModelTest.GetEdgesForComplexPolygon.
LQuad == <<"f", " ", "1", " ", "2", " ", "3", " ", "4">>

\* A face that runs along the pair (1, 2) twice.
LFaceTwice == <<"f", " ", "1", " ", "2", " ", "1", " ", "3">>

\* A face that lists an index twice in a row.
LFaceRepeat == <<"f", " ", "1", " ", "1", " ", "2", " ", "3">>

\* Meshes of triangles and quads that share pairs.
EdgeLines == {LVertA, LFace, LQuad, LFaceTwice, LFaceRepeat}

NextEdges ==
  \/ Begin
  \/ \E ln \in EdgeLines : GetLine(ln)
  \/ LoadEnd

SpecEdges == Init /\ [][NextEdges]_vars

\* The file of AffineTransformTest and ModelManagerTest: a vertex on each
\* axis and the triangle they span (coordinates written without a fraction).
LAxisX == <<"v", " ", "1", " ", "0", " ", "0">>

LAxisY == <<"v", " ", "0", " ", "1", " ", "0">>

LAxisZ == <<"v", " ", "0", " ", "0", " ", "1">>

AxesFile == <<LAxisX, LAxisY, LAxisZ, LFace>>

\* The lines that may follow what has been read of one of the files fs.
NextLines(fs) ==
  {f[Len(file) + 1] :
     f \in {g \in fs : Len(g) > Len(file) /\ SubSeq(g, 1, Len(file)) = file}}

\* Factors and offsets of the commands: those of the tests, a factor that is
\* no power of two with its reciprocal, offsets far larger than the mesh.
Seven == FloatOfInt(7)

Tenth == fdiv(One, FloatOfInt(10))

NearOffset == <<FloatOfInt(2), FloatOfInt(0 - 1), Half>>

FarOffset == <<FloatOfInt(16777216), Tenth, FloatOfInt(1000)>>

Negated(d) == <<fsub(Zero, d[1]), fsub(Zero, d[2]), fsub(Zero, d[3])>>

\* The axes file or an empty file, moved and scaled.
NextAffine ==
  \/ LoadModel
  \/ LoadModelForTest
  \/ \E ln \in NextLines({AxesFile}) : GetLine(ln)
  \/ (file \in {<<>>, AxesFile} /\ LoadEnd)
  \/ \E d \in {NearOffset, Negated(NearOffset), FarOffset, Negated(FarOffset)} :
       MoveCommand_Execute(d[1], d[2], d[3])
  \/ \E k \in {FloatOfInt(2), Half, Seven, fdiv(One, Seven), Zero,
                FloatOfInt(0 - 1)} :
       ScaleCommand_Execute(k)

SpecAffine == Init /\ [][NextAffine]_vars

\* Angles in degrees: a quarter turn and half of it about one axis, about
\* several axes, and no turn at all.
Degrees(ax, ay, az) == <<FloatOfInt(ax), FloatOfInt(ay), FloatOfInt(az)>>

Angles ==
  {Degrees(90, 0, 0), Degrees(0, 90, 0), Degrees(0, 0, 90), Degrees(90, 90, 90),
   Degrees(45, 0, 90)}

\* The axes file, read to its end, turned, moved and scaled.
NextRotate ==
  \/ LoadModel
  \/ LoadModelForTest
  \/ \E ln \in NextLines({AxesFile}) : GetLine(ln)
  \/ (file = AxesFile /\ LoadEnd)
  \/ \E a \in Angles : RotateCommand_Execute(a[1], a[2], a[3])
  \/ MoveCommand_Execute(NearOffset[1], NearOffset[2], NearOffset[3])
  \/ ScaleCommand_Execute(FloatOfInt(2))

SpecRotate == Init /\ [][NextRotate]_vars

\* Two vertices two units apart on every axis, 2^24 units from the origin on
\* the x axis, where neighbouring floats are two units apart.
LFarA ==
  <<"v", " ", "1", "6", "7", "7", "7", "2", "1", "6", " ", "0", " ", "0">>

LFarB ==
  <<"v", " ", "1", "6", "7", "7", "7", "2", "1", "8", " ", "2", " ", "2">>

\* Meshes near the origin, far from it, and both, loaded by LoadModel.
FarLines == {LAxisX, LAxisY, LAxisZ, LFarA, LFarB}

NextFar ==
  \/ LoadModel
  \/ \E ln \in FarLines : GetLine(ln)
  \/ LoadEnd

SpecFar == Init /\ [][NextFar]_vars

\* A vertex with a coordinate above FLT_MAX / 2.
LBig == <<"v", " ", "3", "e", "3", "8", " ", "0", " ", "0">>

\* Meshes of one point, given once or several times, and of several points,
\* normalized by LoadModel or by a direct call.
PointLines == {LVertA, LVertB, LBig}

NextPoint ==
  \/ Begin
  \/ LoadModel
  \/ \E ln \in PointLines : GetLine(ln)
  \/ LoadEnd
  \/ NormalizeModel_Call

SpecPoint == Init /\ [][NextPoint]_vars

\* The window: clicks on the load button with a file that is the axes file
\* or the start of it, or that does not open; slider events that move and
\* scale; repaints; and a LoadModelForTest call made by other code.
NextGui ==
  \/ \E p \in Paths, opens \in BOOLEAN : onLoadButtonClicked(p, opens)
  \/ LoadModelForTest
  \/ \E ln \in NextLines({AxesFile}) : GetLine(ln)
  \/ LoadEnd
  \/ MoveCommand_Execute(NearOffset[1], NearOffset[2], NearOffset[3])
  \/ ScaleCommand_Execute(FloatOfInt(2))
  \/ paintGL

SpecGui == Init /\ [][NextGui]_vars

\* A line of whitespace only.
LSpaces == <<" ", "\t">>

\* Vertex and face records among lines the loader skips: whitespace, a
\* comment, an unknown record type.  A face before its third vertex fails.
SkipLines == {LSpaces, LComment, LOther, LVertA, LFace}

NextSkip ==
  \/ Begin
  \/ \E ln \in SkipLines : GetLine(ln)
  \/ LoadEnd

SpecSkip == Init /\ [][NextSkip]_vars

\* The window alone: nothing but its handlers and its repaints touch the
\* manager.
NextWindow ==
  \/ \E p \in Paths, opens \in BOOLEAN : onLoadButtonClicked(p, opens)
  \/ \E ln \in NextLines({AxesFile}) : GetLine(ln)
  \/ LoadEnd
  \/ MoveCommand_Execute(NearOffset[1], NearOffset[2], NearOffset[3])
  \/ ScaleCommand_Execute(FloatOfInt(2))
  \/ paintGL

SpecWindow == Init /\ [][NextWindow]_vars

(***************************************************************************)
(* The vocabulary of the specification (spec.md 4.1, 6), stated on the     *)
(* text of a line: what a numeric token is, what a record holds.           *)
(***************************************************************************)
AllDigits(t) == t # <<>> /\ \A i \in 1..Len(t) : t[i] \in Digits

\* A decimal number: an optional sign, then digits and nothing else.
IsNumber(t) ==
  t # <<>> /\ AllDigits(IF t[1] \in {"-", "+"} THEN Tail(t) ELSE t)

RECURSIVE DecValue(_)
DecValue(t) ==
  IF t = <<>> THEN 0
  ELSE 10 * DecValue(SubSeq(t, 1, Len(t) - 1)) + DigitVal(t[Len(t)])

NumberValue(t) ==
  IF t[1] = "-" THEN 0 - DecValue(Tail(t))
  ELSE IF t[1] = "+" THEN DecValue(Tail(t)) ELSE DecValue(t)

IsVertexRecord(ln) == starts_with(LTrim(ln), <<"v", " ">>)

IsFaceRecord(ln) == starts_with(LTrim(ln), <<"f", " ">>)

\* Blank, comment, or a record type that is neither vertex nor face.
Ignorable(ln) ==
  \/ LTrim(ln) = <<>>
  \/ LTrim(ln)[1] = "#"
  \/ ~IsVertexRecord(ln) /\ ~IsFaceRecord(ln)

\* The whitespace-separated tokens after the record tag.
Fields(ln) == Tokens(substr(LTrim(ln), 2))

\* Exactly three tokens, each a number.
WellFormedVertex(ln) ==
  /\ IsVertexRecord(ln)
  /\ Len(Fields(ln)) = 3
  /\ \A i \in 1..3 : IsNumber(Fields(ln)[i])

\* The coordinates a well-formed vertex record denotes, as floats.
VertexOf(ln) ==
  <<FloatOfInt(NumberValue(Fields(ln)[1])), FloatOfInt(NumberValue(Fields(ln)[2])),
    FloatOfInt(NumberValue(Fields(ln)[3]))>>

\* The text of an index token before its first '/'.
IndexText(t) ==
  LET cut == {i \in 1..Len(t) : t[i] = "/"}
  IN  IF cut = {} THEN t
      ELSE SubSeq(t, 1, (CHOOSE i \in cut : \A j \in cut : i <= j) - 1)

\* A positive 1-based index that names one of n vertices.  Its negation: the
\* token is non-numeric, negative, zero or greater than n.
GoodIndex(t, n) == AllDigits(IndexText(t)) /\ DecValue(IndexText(t)) \in 1..n

\* The 0-based indices a face record lists.
FaceIndices(ln) ==
  [i \in 1..Len(Fields(ln)) |-> DecValue(IndexText(Fields(ln)[i])) - 1]

DistinctIndices(ln) == {FaceIndices(ln)[i] : i \in 1..Len(Fields(ln))}

\* The number of vertex records accepted before line k of the file f.
NVertsBefore(f, k) == Cardinality({j \in 1..(k - 1) : WellFormedVertex(f[j])})

\* Line k of f is a face record that makes a polygon.
AcceptedFace(f, k) ==
  /\ IsFaceRecord(f[k])
  /\ \A i \in 1..Len(Fields(f[k])) : GoodIndex(Fields(f[k])[i], NVertsBefore(f, k))
  /\ Cardinality(DistinctIndices(f[k])) >= 3

\* Line k of f is a face record with in-range indices, too few of them
\* distinct.
DegenerateFace(f, k) ==
  /\ IsFaceRecord(f[k])
  /\ \A i \in 1..Len(Fields(f[k])) : GoodIndex(Fields(f[k])[i], NVertsBefore(f, k))
  /\ Cardinality(DistinctIndices(f[k])) < 3

\* Line k of f is a line-local failure: a malformed vertex record or a face
\* record with an invalid index.
FailingLine(f, k) ==
  \/ IsVertexRecord(f[k]) /\ ~WellFormedVertex(f[k])
  \/ /\ IsFaceRecord(f[k])
     /\ \E i \in 1..Len(Fields(f[k])) :
          ~GoodIndex(Fields(f[k])[i], NVertsBefore(f, k))

\* Every record of f is syntactically well formed.
WellFormedFile(f) ==
  \A k \in 1..Len(f) :
    \/ Ignorable(f[k])
    \/ WellFormedVertex(f[k])
    \/ /\ IsFaceRecord(f[k])
       /\ \A i \in 1..Len(Fields(f[k])) : AllDigits(IndexText(Fields(f[k])[i]))

RECURSIVE ExpectedVertices(_, _)
ExpectedVertices(f, k) ==
  IF k > Len(f) THEN <<>>
  ELSE (IF WellFormedVertex(f[k]) THEN <<VertexOf(f[k])>> ELSE <<>>)
       \o ExpectedVertices(f, k + 1)

RECURSIVE ExpectedPolygons(_, _)
ExpectedPolygons(f, k) ==
  IF k > Len(f) THEN <<>>
  ELSE (IF AcceptedFace(f, k) THEN <<FaceIndices(f[k])>> ELSE <<>>)
       \o ExpectedPolygons(f, k + 1)

RemoveAt(f, k) == SubSeq(f, 1, k - 1) \o SubSeq(f, k + 1, Len(f))

\* The loader's state before and after line k of f.
Before(f, k) == ReadLines(Cleared, SubSeq(f, 1, k - 1))

After(f, k) == ProcessLine(Before(f, k), f[k])

InLoad == pc \in {"parsing", "done"} /\ is_open

(***************************************************************************)
(* Claims                                                                  *)
(***************************************************************************)

\* C1: whenever LoadFromFile returns false, the vertex buffer and the polygon
\* buffer are both empty afterwards, whatever the file held and whatever the
\* Model held before the call.
C1_FailedLoadLeavesEmpty ==
  pc = "done" /\ ~ret => vertices_ = <<>> /\ polygons_ = <<>>

\* A Model that held data is loaded from a file that opens and holds only a
\* malformed vertex record and faces; the load fails.
C1_Witness ==
  /\ pc = "done" /\ ~ret /\ is_open /\ had_data
  /\ \E k \in 1..Len(file) : file[k] = LVertShort
  /\ \E k \in 1..Len(file) : file[k] = LFace

\* C2: LoadFromFile on a path that cannot be opened returns false, sets the
\* last error code to FileOpenError and leaves both buffers empty, whatever
\* the Model held before.
C2_OpenFailure ==
  pc = "done" /\ ~is_open =>
    /\ ~ret
    /\ last_error_ = kFileOpenError
    /\ vertices_ = <<>> /\ polygons_ = <<>>

C2_Witness == pc = "done" /\ ~is_open /\ had_data /\ ~ret

\* C3: when the file opens and no vertex record and no face record is
\* accepted, LoadFromFile returns false with the final code NoValidData,
\* which replaces the InvalidData of line-local failures of the same load.
C3_NoValidData ==
  (/\ pc = "done" /\ is_open
   /\ \A k \in 1..Len(file) : ~WellFormedVertex(file[k]) /\ ~AcceptedFace(file, k))
  => ~ret /\ last_error_ = kNoValidData /\ last_error_str_ = NoValidDataMsg

\* Every record of the file is malformed, so InvalidData was recorded on the
\* way.
C3_Witness ==
  /\ pc = "done" /\ is_open /\ last_error_ = kNoValidData
  /\ Len(file) >= 2
  /\ \A k \in 1..Len(file) : FailingLine(file, k)

\* C4: a well-formed file with N vertex records loads N vertices in file
\* order, and the polygon buffer is, in file order, exactly the face records
\* with at least 3 distinct indices, all of them between 1 and the number of
\* vertices read before that record, stored 0-based.
C4_WellFormedLoad ==
  pc = "done" /\ is_open /\ WellFormedFile(file) =>
    /\ vertices_ = ExpectedVertices(file, 1)
    /\ Len(vertices_) = Cardinality({k \in 1..Len(file) : IsVertexRecord(file[k])})
    /\ polygons_ = ExpectedPolygons(file, 1)

\* Three vertices and two different faces, one of them with '/' suffixes.
C4_Witness ==
  /\ pc = "done" /\ ret /\ WellFormedFile(file)
  /\ Len(vertices_) = 3 /\ vertices_[1] # vertices_[2]
  /\ Len(polygons_) = 2 /\ polygons_[1] # polygons_[2]

\* C5: a face record whose indices are all in range but fewer than 3 of them
\* distinct is dropped silently: the step that reads it appends no polygon
\* and leaves the error code and message as they were, and the load of a file
\* holding such a record still returns true when a vertex was accepted.
C5_DegenerateFaceDropped ==
  [][/\ (pc = "parsing" /\ Len(file') = Len(file) + 1
           /\ DegenerateFace(file', Len(file')))
        => /\ polygons_' = polygons_
           /\ vertices_' = vertices_
           /\ last_error_' = last_error_
           /\ last_error_str_' = last_error_str_
           /\ pc' = "parsing"
     /\ (pc = "parsing" /\ pc' = "done" /\ vertices_ # <<>>
           /\ \E k \in 1..Len(file) : DegenerateFace(file, k))
        => ret']_vars

\* "f 1 1 1" and "f 1 2" were both read after a malformed vertex record and
\* two vertices; the load succeeded with no polygon, the error still the one
\* of line 1.
C5_Witness ==
  /\ pc = "done" /\ ret /\ polygons_ = <<>>
  /\ last_error_ = kInvalidData /\ last_error_str_.line = 1
  /\ \E k \in 1..Len(file) : file[k] = LFaceDup /\ DegenerateFace(file, k)
  /\ \E k \in 1..Len(file) : file[k] = LFaceTwo /\ DegenerateFace(file, k)

\* C6: a line-local failure on line k appends nothing to either buffer, sets
\* the error code to InvalidData with a message carrying the physical line
\* number k, and does not abort the load: the buffers end as they would had
\* line k been absent from the file.
C6_LineLocalFailure ==
  /\ (pc = "parsing" /\ file # <<>> /\ FailingLine(file, Len(file))) =>
       /\ last_error_ = kInvalidData
       /\ last_error_str_.text = "Error at line "
       /\ last_error_str_.line = Len(file)
  /\ (pc = "done" /\ is_open) =>
       \A k \in 1..Len(file) :
         FailingLine(file, k) =>
           LET before == Before(file, k)
               after == ProcessLine(before, file[k])
               without == ReadLines(Cleared, RemoveAt(file, k))
           IN  /\ after.vertices_ = before.vertices_
               /\ after.polygons_ = before.polygons_
               /\ after.last_error_ = kInvalidData
               /\ after.last_error_str_.line = k
               /\ vertices_ = without.vertices_
               /\ polygons_ = without.polygons_

\* A blank line, then a failing line, then a vertex that is accepted: the
\* message names line 2 and the load succeeds.
C6_Witness ==
  /\ pc = "done" /\ ret /\ Len(file) >= 3
  /\ file[1] = LBlank /\ FailingLine(file, 2)
  /\ last_error_ = kInvalidData /\ last_error_str_.line = 2
  /\ vertices_ # <<>>

\* C7: a face record with an index token that is zero, negative, non-numeric
\* or greater than the number of vertices accepted so far is a line-local
\* failure that appends no polygon.
C7_BadIndexRejectsFace ==
  InLoad =>
    \A k \in 1..Len(file) :
      (/\ IsFaceRecord(file[k])
       /\ \E i \in 1..Len(Fields(file[k])) :
            ~GoodIndex(Fields(file[k])[i], NVertsBefore(file, k)))
      => /\ After(file, k).polygons_ = Before(file, k).polygons_
         /\ After(file, k).last_error_ = kInvalidData
         /\ After(file, k).last_error_str_.line = k

\* C8: a vertex record adds a vertex if and only if it holds exactly three
\* numeric tokens; otherwise it is a line-local failure ("invalid vertex
\* format") and adds no vertex.
C8_VertexIffThreeNumbers ==
  InLoad =>
    \A k \in 1..Len(file) :
      IsVertexRecord(file[k]) =>
        IF WellFormedVertex(file[k])
        THEN After(file, k).vertices_ =
               Append(Before(file, k).vertices_, VertexOf(file[k]))
        ELSE /\ After(file, k).vertices_ = Before(file, k).vertices_
             /\ After(file, k).last_error_ = kInvalidData
             /\ After(file, k).last_error_str_.what = "Invalid vertex format"

C10_ValidNeedsPolygon ==
  pc # "parsing" /\ Model_IsValid(vertices_, polygons_) =>
    /\ vertices_ # <<>>
    /\ \E i \in 1..Len(polygons_) : Polygon_IsValid(polygons_[i], Len(vertices_))

(***************************************************************************)
(* C11: in every reachable state -- while a load is running, after any     *)
(* number of loads, after the manager's NormalizeModel and after any Move, *)
(* Rotate and Scale -- every polygon of the polygon buffer lists at least  *)
(* three distinct indices and every index it lists is below the vertex     *)
(* count; a polygon that fails this is never inserted.                     *)
(***************************************************************************)
C11_PolygonsStayValid ==
  \A k \in 1..Len(polygons_) :
    /\ Cardinality({polygons_[k][i] : i \in 1..Len(polygons_[k])}) >= 3
    /\ \A i \in 1..Len(polygons_[k]) :
         polygons_[k][i] >= 0 /\ polygons_[k][i] < Len(vertices_)

\* A normalized mesh with a polygon, loaded from a file that also held a
\* face with too few distinct indices, after a command has run.
C11_Witness ==
  /\ pc = "done"
  /\ caller = "LoadModel"
  /\ normalize_calls = 1
  /\ polygons_ # <<>>
  /\ \E k \in 1..Len(file) : file[k] = LFaceDup
  /\ commands # <<>>
  /\ vertices_ # loaded

(***************************************************************************)
(* C12: GetEdges() returns exactly the set of unordered pairs formed by    *)
(* consecutive indices of each polygon, the pair (last, first) included,   *)
(* each stored as (min, max) and once, even when two polygons share it or  *)
(* one polygon lists it twice; GetEdgeCount() is the size of that set: 3   *)
(* for a triangle, 4 for a quad.  An unordered pair is read as a set of    *)
(* two indices.                                                            *)
(***************************************************************************)
\* The consecutive positions of a polygon of n indices, as (i, next of i).
ConsecutivePositions(n) == {<<i, (i % n) + 1>> : i \in 1..n}

\* The unordered pairs of consecutive indices over the whole buffer.
ConsecutivePairs ==
  {e \in UNION {{{polygons_[k][c[1]], polygons_[k][c[2]]} :
                   c \in ConsecutivePositions(Len(polygons_[k]))} :
                 k \in 1..Len(polygons_)} : Cardinality(e) = 2}

C12_EdgesAreConsecutivePairs ==
  LET edges == GetEdges(polygons_)
  IN  /\ \A j \in 1..Len(edges) : edges[j][1] < edges[j][2]
      /\ \A i, j \in 1..Len(edges) : i # j => edges[i] # edges[j]
      /\ {{edges[j][1], edges[j][2]} : j \in 1..Len(edges)} = ConsecutivePairs
      /\ GetEdgeCount(polygons_) = Cardinality(ConsecutivePairs)
      /\ \A n \in {3, 4} :
           (/\ Len(polygons_) = 1
            /\ Len(polygons_[1]) = n
            /\ Cardinality({polygons_[1][i] : i \in 1..n}) = n)
           => GetEdgeCount(polygons_) = n

\* A triangle and a face that runs twice along a pair of the triangle: seven
\* consecutive pairs, three edges.
C12_Witness ==
  /\ pc = "done"
  /\ ret
  /\ polygons_ = <<<<0, 1, 2>>, <<0, 1, 0, 2>>>>
  /\ GetEdges(polygons_) = <<<<0, 1>>, <<0, 2>>, <<1, 2>>>>

(***************************************************************************)
(* C13: a MoveCommand, RotateCommand or ScaleCommand executed while the    *)
(* manager holds no Model (GetModel() is null), or holds the empty Model a *)
(* failed load left, does not fail and changes no state of the manager or  *)
(* of the mesh.                                                            *)
(***************************************************************************)
\* The step is the execution of a command.
CommandStep == Len(commands') = Len(commands) + 1

\* The manager holds the Model of a load that returned false.
HoldsFailedLoad == current_model_ = "model" /\ pc = "done" /\ ~ret

C13_NoMeshNoEffect ==
  [][(CommandStep /\ (current_model_ = "nullptr" \/ HoldsFailedLoad))
     => UNCHANGED <<vertices_, polygons_, last_error_, last_error_str_,
                    path_file_, pc, file, is_open, line_num, has_valid_data,
                    ret, had_data, current_model_, caller, normalize_calls,
                    loaded>>]_vars

\* Two different commands have run on the Model LoadModel left after a file
\* with no usable record.
C13_Witness ==
  /\ HoldsFailedLoad
  /\ caller = "LoadModel"
  /\ file # <<>>
  /\ last_error_ = kNoValidData
  /\ Len(commands) = 2
  /\ commands[1].name # commands[2].name
  /\ vertices_ = <<>>

(***************************************************************************)
(* Vocabulary of the claims on coordinates: exact values and distances.    *)
(***************************************************************************)
\* 2^k as an exact value.
Pow2(k) == Dyadic(FALSE, <<1>>, k)

\* |a - b| <= bound, on exact values.
Near(a, b, bound) == DCmp(DAbs(DSub(a, b)), bound) <= 0

\* |a - b| < 1e-6, the tolerance of Vertex::operator==.
WithinTolerance(a, b) == DCmp(DAbs(DSub(a, b)), Exact(RadiusGuard)) < 0

\* The coordinates the buffer holds: (vertex, axis).
Coordinates == (1..Len(vertices_)) \X (1..3)

\* The last command executed and the one before it, when the manager held a
\* Model.
LastIs(name) ==
  /\ commands # <<>>
  /\ commands[Len(commands)].name = name
  /\ commands[Len(commands)].held

LastTwoAre(name) ==
  /\ Len(commands) >= 2
  /\ LastIs(name)
  /\ commands[Len(commands) - 1].name = name

Last == commands[Len(commands)]

Previous == commands[Len(commands) - 1]

(***************************************************************************)
(* C14 as stated: Scale(k) multiplies every coordinate by k when k > 0, so *)
(* that Scale(k) followed by Scale(1/k) restores the original coordinates; *)
(* k <= 0 leaves every vertex unchanged.  Equality of coordinates is taken *)
(* with the tolerance of Vertex::operator==.                               *)
(***************************************************************************)
C14_ScaleRestoresOriginal ==
  /\ LastIs("Scale") =>
       /\ Len(vertices_) = Len(Last.before)
       /\ IF flt(Zero, Last.args[1])
          THEN \A ic \in Coordinates :
                 WithinTolerance(Exact(vertices_[ic[1]][ic[2]]),
                                 DMul(Exact(Last.before[ic[1]][ic[2]]),
                                      Exact(Last.args[1])))
          ELSE vertices_ = Last.before
  /\ (/\ LastTwoAre("Scale")
      /\ flt(Zero, Previous.args[1])
      /\ Last.args[1] = fdiv(One, Previous.args[1]))
     => \A ic \in Coordinates :
          WithinTolerance(Exact(vertices_[ic[1]][ic[2]]),
                          Exact(Previous.before[ic[1]][ic[2]]))

(***************************************************************************)
(* C14 amended: Scale(k) with k > 0 replaces every coordinate x by the     *)
(* float nearest to x * k (relative error at most 2^-24); Scale(k)         *)
(* followed by Scale(1.0f / k) leaves every coordinate within 2^-22 * |x|  *)
(* of its original value x, and exactly x when k is a power of two; k <= 0 *)
(* leaves every vertex unchanged.                                          *)
(***************************************************************************)
C14_ScaleWithinRounding ==
  /\ LastIs("Scale") =>
       /\ Len(vertices_) = Len(Last.before)
       /\ IF flt(Zero, Last.args[1])
          THEN \A ic \in Coordinates :
                 LET product == DMul(Exact(Last.before[ic[1]][ic[2]]),
                                     Exact(Last.args[1]))
                 IN  Near(Exact(vertices_[ic[1]][ic[2]]), product,
                          DMul(Pow2(0 - 24), DAbs(product)))
          ELSE vertices_ = Last.before
  /\ (/\ LastTwoAre("Scale")
      /\ flt(Zero, Previous.args[1])
      /\ Last.args[1] = fdiv(One, Previous.args[1]))
     => /\ \A ic \in Coordinates :
            LET x == Exact(Previous.before[ic[1]][ic[2]])
            IN  Near(Exact(vertices_[ic[1]][ic[2]]), x,
                     DMul(Pow2(0 - 22), DAbs(x)))
        /\ Previous.args[1][1] = 1 => vertices_ = Previous.before

\* Scale(7) then Scale(1.0f / 7) on a loaded mesh has left a coordinate that
\* is not the original one.
C14_Witness ==
  /\ LastTwoAre("Scale")
  /\ Previous.args[1] = Seven
  /\ Last.args[1] = fdiv(One, Seven)
  /\ vertices_ # <<>>
  /\ vertices_ # Previous.before

(***************************************************************************)
(* C15 as stated: Move(dx, dy, dz) adds (dx, dy, dz) to every vertex, for  *)
(* any offsets; Translate(dx, dy, dz) followed by Translate(-dx, -dy, -dz) *)
(* restores the original coordinates of every vertex.  Equality of         *)
(* coordinates is taken with the tolerance of Vertex::operator==.          *)
(***************************************************************************)
C15_MoveRestoresOriginal ==
  /\ LastIs("Move") =>
       /\ Len(vertices_) = Len(Last.before)
       /\ \A ic \in Coordinates :
            WithinTolerance(Exact(vertices_[ic[1]][ic[2]]),
                            DAdd(Exact(Last.before[ic[1]][ic[2]]),
                                 Exact(Last.args[ic[2]])))
  /\ (LastTwoAre("Move") /\ Last.args = Negated(Previous.args))
     => \A ic \in Coordinates :
          WithinTolerance(Exact(vertices_[ic[1]][ic[2]]),
                          Exact(Previous.before[ic[1]][ic[2]]))

(***************************************************************************)
(* C15 amended: Move(dx, dy, dz) replaces every coordinate by the float    *)
(* nearest to its sum with the offset of its axis (relative error at most  *)
(* 2^-24); Translate(d) followed by Translate(-d) leaves every coordinate  *)
(* within twice the rounding error of the first addition of its original   *)
(* value, hence restores it exactly when that sum is a float.              *)
(***************************************************************************)
C15_MoveWithinRounding ==
  /\ LastIs("Move") =>
       /\ Len(vertices_) = Len(Last.before)
       /\ \A ic \in Coordinates :
            LET sum == DAdd(Exact(Last.before[ic[1]][ic[2]]),
                            Exact(Last.args[ic[2]]))
            IN  Near(Exact(vertices_[ic[1]][ic[2]]), sum,
                     DMul(Pow2(0 - 24), DAbs(sum)))
  /\ (LastTwoAre("Move") /\ Last.args = Negated(Previous.args))
     => \A ic \in Coordinates :
          LET x == Exact(Previous.before[ic[1]][ic[2]])
              sum == DAdd(x, Exact(Previous.args[ic[2]]))
              error == DAbs(DSub(Exact(Last.before[ic[1]][ic[2]]), sum))
          IN  Near(Exact(vertices_[ic[1]][ic[2]]), x, DMul(Pow2(1), error))

\* The far offset and its negative have moved a loaded mesh and left a
\* coordinate away from its original value.
C15_Witness ==
  /\ LastTwoAre("Move")
  /\ Previous.args = FarOffset
  /\ Last.args = Negated(FarOffset)
  /\ vertices_ # <<>>
  /\ vertices_ # Previous.before

(***************************************************************************)
(* C16: RotateCommand follows the right-hand rule on each axis: a turn by  *)
(* t about X maps (y, z) to (y cos t - z sin t, y sin t + z cos t), about  *)
(* Y maps (z, x) the same way, about Z maps (x, y) the same way; hence     *)
(* Rotate(90,0,0) maps (0,1,0) to (0,0,1), Rotate(0,90,0) maps (0,0,1) to  *)
(* (1,0,0) and (1,0,0) to (0,0,-1), Rotate(0,0,90) maps (1,0,0) to         *)
(* (0,1,0).  Coordinates are compared with the tolerance of                *)
(* Vertex::operator==, the formula up to the rounding of its operations.   *)
(***************************************************************************)
\* A vertex with integer coordinates.
Point(x, y, z) == <<FloatOfInt(x), FloatOfInt(y), FloatOfInt(z)>>

\* v is w up to the tolerance, coordinate by coordinate.
SameVertex(v, w) == \A c \in 1..3 : WithinTolerance(Exact(v[c]), Exact(w[c]))

\* The last command turned v into w.
Maps(v, w) ==
  \A i \in 1..Len(vertices_) :
    SameVertex(Last.before[i], v) => SameVertex(vertices_[i], w)

\* The pair <<a, b>> turned by t with exact operations.
Turned(a, b, t) ==
  <<DSub(DMul(Exact(a), cos(t)), DMul(Exact(b), sin(t))),
    DAdd(DMul(Exact(a), sin(t)), DMul(Exact(b), cos(t)))>>

\* p is the pair <<a, b>> turned by t up to the rounding of the products,
\* of their sum and of the result.
IsTurned(p, a, b, t) ==
  LET bound == DMul(Pow2(0 - 22), DAdd(DAbs(Exact(a)), DAbs(Exact(b))))
  IN  /\ Near(Exact(p[1]), Turned(a, b, t)[1], bound)
      /\ Near(Exact(p[2]), Turned(a, b, t)[2], bound)

C16_RightHandRule ==
  LastIs("Rotate") =>
    /\ Len(vertices_) = Len(Last.before)
    /\ \A i \in 1..Len(vertices_) :
         LET v == Last.before[i]
             w == vertices_[i]
             t == fmul(FloatOfInt(90), deg_to_rad)
         IN  /\ Last.args = Degrees(90, 0, 0) =>
                  w[1] = v[1] /\ IsTurned(<<w[2], w[3]>>, v[2], v[3], t)
             /\ Last.args = Degrees(0, 90, 0) =>
                  w[2] = v[2] /\ IsTurned(<<w[3], w[1]>>, v[3], v[1], t)
             /\ Last.args = Degrees(0, 0, 90) =>
                  w[3] = v[3] /\ IsTurned(<<w[1], w[2]>>, v[1], v[2], t)
    /\ Last.args = Degrees(90, 0, 0) => Maps(Point(0, 1, 0), Point(0, 0, 1))
    /\ Last.args = Degrees(0, 90, 0) =>
         /\ Maps(Point(0, 0, 1), Point(1, 0, 0))
         /\ Maps(Point(1, 0, 0), Point(0, 0, 0 - 1))
    /\ Last.args = Degrees(0, 0, 90) => Maps(Point(1, 0, 0), Point(0, 1, 0))

\* Rotate(0,90,0) has run on the axes file as loaded by LoadModelForTest:
\* the vertex that was (0,0,1) is at (1,0,0), the one that was (1,0,0) at
\* (0,0,-1).
C16_Witness ==
  /\ Len(commands) = 1
  /\ LastIs("Rotate")
  /\ Last.args = Degrees(0, 90, 0)
  /\ Last.before = <<Point(1, 0, 0), Point(0, 1, 0), Point(0, 0, 1)>>
  /\ SameVertex(vertices_[3], Point(1, 0, 0))
  /\ SameVertex(vertices_[1], Point(0, 0, 0 - 1))

(***************************************************************************)
(* C17: Rotate(ax, ay, az) turns every vertex about X first, then about Y, *)
(* then about Z, skipping an axis whose angle is exactly zero; its result  *)
(* is that of Rotate(ax,0,0), Rotate(0,ay,0), Rotate(0,0,az) executed in   *)
(* that order; and commands issued one after another (Move, Rotate,        *)
(* Scale) each act on the buffer the previous one left.                    *)
(***************************************************************************)
\* What one command does to a buffer.
Apply(cmd, verts) ==
  CASE cmd.name = "Move" ->
         MoveVertices(verts, cmd.args[1], cmd.args[2], cmd.args[3])
    [] cmd.name = "Rotate" ->
         RotateVertices(verts, cmd.args[1], cmd.args[2], cmd.args[3])
    [] cmd.name = "Scale" -> ScaleVertices(verts, cmd.args[1])

\* Every command of the history found the buffer the one before it left,
\* the first one the buffer the load left, and the buffer now is what the
\* last one left.
Chained ==
  /\ commands = <<>> => vertices_ = loaded
  /\ commands # <<>> =>
       /\ commands[1].before = loaded
       /\ vertices_ = Apply(Last, Last.before)
       /\ Len(commands) >= 2 => Last.before = Apply(Previous, Previous.before)

\* The history ends with the three single-axis commands of the angles a.
EndsWithAxesOf(a) ==
  /\ Len(commands) >= 3
  /\ \A j \in 0..2 : commands[Len(commands) - j].name = "Rotate"
  /\ commands[Len(commands) - 2].args = <<a[1], Zero, Zero>>
  /\ commands[Len(commands) - 1].args = <<Zero, a[2], Zero>>
  /\ Last.args = <<Zero, Zero, a[3]>>

C17_RotateIsXThenYThenZ ==
  /\ (pc = "done" /\ current_model_ = "model") => Chained
  /\ LastIs("Rotate") =>
       /\ Last.args[1] = Zero /\ Last.args[2] = Zero =>
            \A i \in 1..Len(vertices_) : vertices_[i][3] = Last.before[i][3]
       /\ Last.args[1] = Zero /\ Last.args[3] = Zero =>
            \A i \in 1..Len(vertices_) : vertices_[i][2] = Last.before[i][2]
       /\ Last.args[2] = Zero /\ Last.args[3] = Zero =>
            \A i \in 1..Len(vertices_) : vertices_[i][1] = Last.before[i][1]
       /\ \A a \in Angles :
            EndsWithAxesOf(a) =>
              vertices_ =
                RotateVertices(commands[Len(commands) - 2].before,
                               a[1], a[2], a[3])

\* Rotate(90,0,0), Rotate(0,90,0), Rotate(0,0,90) have run in that order on
\* the loaded axes file and moved its vertices.
C17_Witness ==
  /\ EndsWithAxesOf(Degrees(90, 90, 90))
  /\ Last.held
  /\ Len(vertices_) = 3
  /\ vertices_ # loaded
  /\ vertices_ # Last.before

(***************************************************************************)
(* C18: loading is a full replace.  LoadFromFile(A) then LoadFromFile(B)   *)
(* on the same Model leaves the return value, the vertex buffer, the       *)
(* polygon buffer and the last error code and message that LoadFromFile(B) *)
(* leaves on a fresh Model, whether either load succeeds or fails.         *)
(***************************************************************************)
\* What LoadFromFile leaves on a default-constructed Model for the file just
\* read, or for the path that did not open.
OnFreshModel ==
  IF is_open THEN LoadLines(file) ELSE OpenFailed(Cleared, path_file_.path)

C18_LoadIsFullReplace ==
  (pc = "done" /\ caller = "") =>
    /\ ret = OnFreshModel.ret
    /\ vertices_ = OnFreshModel.vertices_
    /\ polygons_ = OnFreshModel.polygons_
    /\ last_error_ = OnFreshModel.last_error_
    /\ last_error_str_ = OnFreshModel.last_error_str_

\* A Model that held the data of an earlier load has read a file with no
\* valid data: it is empty and reports kNoValidData.
C18_Witness ==
  /\ pc = "done"
  /\ caller = ""
  /\ had_data
  /\ is_open
  /\ file # <<>>
  /\ ~ret
  /\ last_error_ = kNoValidData
  /\ vertices_ = <<>>
  /\ polygons_ = <<>>

(***************************************************************************)
(* C19: ModelManager::LoadModel runs NormalizeModel exactly once, right    *)
(* after LoadFromFile, if and only if the load returned true, and never    *)
(* after a failed load; LoadModelForTest never normalizes, so the vertices *)
(* it exposes are the raw parsed coordinates.                              *)
(***************************************************************************)
\* The coordinates LoadFromFile parsed from the file just read (none when
\* the path did not open).
RawVertices == IF is_open THEN LoadLines(file).vertices_ ELSE <<>>

C19_NormalizesOnceIffLoaded ==
  /\ pc = "parsing" => normalize_calls = 0
  /\ (pc = "done" /\ caller = "LoadModel") =>
       /\ normalize_calls = IF ret THEN 1 ELSE 0
       /\ loaded = IF ret THEN NormalizeModel(RawVertices) ELSE RawVertices
  /\ (pc = "done" /\ caller = "LoadModelForTest") =>
       /\ normalize_calls = 0
       /\ loaded = RawVertices

\* LoadModel has loaded the axes file and its one NormalizeModel call has
\* changed the coordinates; nothing else has touched them yet.
C19_Witness ==
  /\ pc = "done"
  /\ caller = "LoadModel"
  /\ ret
  /\ normalize_calls = 1
  /\ file = AxesFile
  /\ commands = <<>>
  /\ vertices_ = loaded
  /\ loaded # RawVertices

(***************************************************************************)
(* C20: after NormalizeModel on a mesh whose axis-aligned bounding box is  *)
(* non-degenerate, the bounding-box midpoint of the vertices is the        *)
(* origin and the half-diagonal of the bounding box is 1, so every vertex  *)
(* lies within distance 1 of the origin (the mesh fits in the unit         *)
(* sphere).  Equalities and the distance are taken with the tolerance of   *)
(* Vertex::operator==.                                                     *)
(***************************************************************************)
\* The box has an extent on every axis.
NonDegenerate(box) == \A i \in 1..3 : flt(box.min[i], box.max[i])

\* x * x as an exact value.
Squared(x) == DMul(x, x)

\* The midpoint of the box on axis i, exactly.
Midpoint(box, i) == DMul(DAdd(Exact(box.min[i]), Exact(box.max[i])), Pow2(0 - 1))

\* The square of the half-diagonal of the box, exactly.
HalfDiagonalSquared(box) ==
  LET half(i) == DMul(DSub(Exact(box.max[i]), Exact(box.min[i])), Pow2(0 - 1))
  IN  DAdd(DAdd(Squared(half(1)), Squared(half(2))), Squared(half(3)))

\* The square of the distance of v from the origin, exactly.
DistanceSquared(v) ==
  DAdd(DAdd(Squared(Exact(v[1])), Squared(Exact(v[2]))), Squared(Exact(v[3])))

\* 1 - 1e-6 and 1 + 1e-6, exactly.
OneLess == DSub(Exact(One), Exact(RadiusGuard))

OneMore == DAdd(Exact(One), Exact(RadiusGuard))

\* LoadModel has just loaded and normalized the file.
JustNormalized ==
  /\ pc = "done"
  /\ caller = "LoadModel"
  /\ ret
  /\ commands = <<>>

C20_FitsUnitSphere ==
  (JustNormalized /\ NonDegenerate(NormalizeModel_box(RawVertices, Len(RawVertices))))
    => LET box == NormalizeModel_box(vertices_, Len(vertices_))
       IN  /\ \A i \in 1..3 : WithinTolerance(Midpoint(box, i), Exact(Zero))
           /\ DCmp(Squared(OneLess), HalfDiagonalSquared(box)) < 0
           /\ DCmp(HalfDiagonalSquared(box), Squared(OneMore)) < 0
           /\ \A k \in 1..Len(vertices_) :
                DCmp(DistanceSquared(vertices_[k]), Squared(OneMore)) < 0

(***************************************************************************)
(* C21: NormalizeModel never divides by zero: on an empty vertex buffer it *)
(* changes nothing, and on a mesh whose vertices all coincide the radius   *)
(* is replaced by 1 and every vertex ends exactly at the origin.           *)
(***************************************************************************)
\* Every vertex of the buffer is the same point.
AllCoincide(verts) == \A k \in 1..Len(verts) : verts[k] = verts[1]

\* The radius NormalizeModel divides by on a buffer that is not empty.
Divisor(verts) ==
  LET radius == NormalizeModel_radius(NormalizeModel_box(verts, Len(verts)))
  IN  IF flt(radius, RadiusGuard) THEN One ELSE radius

\* Every vertex of the buffer is (0, 0, 0).
AtOrigin(verts) == \A k \in 1..Len(verts) : verts[k] = <<Zero, Zero, Zero>>

\* What one NormalizeModel call on the buffer input must have left.
NormalizedSafely(input, output) ==
  IF input = <<>> THEN output = <<>>
  ELSE /\ Divisor(input) # Zero
       /\ AllCoincide(input) =>
            /\ Divisor(input) = One
            /\ Len(output) = Len(input)
            /\ AtOrigin(output)

C21_NoDivisionByZero ==
  /\ JustNormalized => NormalizedSafely(RawVertices, vertices_)
  /\ (commands # <<>> /\ Last.name = "Normalize")
       => NormalizedSafely(Last.before, vertices_)

(***************************************************************************)
(* C22: every call of ModelManager::LoadModel or LoadModelForTest replaces *)
(* the held mesh: afterwards GetModel() is non-null and refers to a mesh   *)
(* created for this call whose content depends only on the file            *)
(* (transforms applied to the previously held mesh have no effect on it);  *)
(* after a failed call the previously held mesh is no longer held and the  *)
(* held mesh has zero vertices and zero polygons.  GetModel() is null only *)
(* before the first load call.                                             *)
(***************************************************************************)
\* A load call of the manager has been made.
ManagerCalled == caller \in {"LoadModel", "LoadModelForTest"}

C22_LoadReplacesHeldMesh ==
  /\ current_model_ = "nullptr" <=> ~ManagerCalled
  /\ ManagerCalled => ~had_data
  /\ (ManagerCalled /\ pc = "done") =>
       /\ ret = OnFreshModel.ret
       /\ polygons_ = OnFreshModel.polygons_
       /\ loaded = IF caller = "LoadModel" /\ ret
                   THEN NormalizeModel(RawVertices) ELSE RawVertices
       /\ commands = <<>> => vertices_ = loaded
       /\ ~ret => (vertices_ = <<>> /\ polygons_ = <<>>)

\* LoadModel has failed after the widget was handed the buffer of the mesh
\* held before: that mesh is deleted and the manager holds an empty one.
C22_Witness ==
  /\ pc = "done"
  /\ caller = "LoadModel"
  /\ ~ret
  /\ gui.vertices_ = "deleted"
  /\ current_model_ = "model"
  /\ vertices_ = <<>>
  /\ polygons_ = <<>>

(***************************************************************************)
(* C23: in every interleaving of load-button clicks (successful or         *)
(* failed), transform events and timer-driven repaints, the vertex buffer  *)
(* that GLWidget reads in paintGL (drawLines/drawVertex) is either null or *)
(* the vertex buffer of the mesh currently held by the ModelManager; the   *)
(* widget never reads the buffer of a mesh that a later LoadModel has      *)
(* deleted, and its edge list always belongs to that same mesh.            *)
(***************************************************************************)
\* No handler is running: the event loop may repaint.
BetweenHandlers == pc \in {"idle", "done"}

C23_WidgetReadsHeldMesh ==
  /\ gui.read # "deleted"
  /\ pc # "failed"
  /\ (BetweenHandlers /\ gui.vertices_ = "held")
       => gui.edges_ = GetEdges(polygons_)

(***************************************************************************)
(* C24: blank lines, lines whose first non-whitespace character is #, and  *)
(* non-blank lines that start with neither "v " nor "f " have no effect on *)
(* a load: inserting or removing any number of them anywhere in a file     *)
(* changes neither the return value, the vertex buffer, the polygon buffer *)
(* nor the error code (only the line numbers quoted in error messages).    *)
(***************************************************************************)
\* The file with every such line removed.
WithoutIgnorable(lines) == SelectSeq(lines, LAMBDA ln : ~Ignorable(ln))

\* The message without the line number it quotes.
Unnumbered(message) == [message EXCEPT !.line = 0]

C24_IgnoredLinesHaveNoEffect ==
  (pc = "done" /\ is_open) =>
    LET bare == LoadLines(WithoutIgnorable(file))
    IN  /\ ret = bare.ret
        /\ vertices_ = bare.vertices_
        /\ polygons_ = bare.polygons_
        /\ last_error_ = bare.last_error_
        /\ Unnumbered(last_error_str_) = Unnumbered(bare.last_error_str_)

\* A file that starts with a skipped line and holds another after its
\* first record has loaded with a line error: the message quotes another
\* line number than it does for the file without the skipped lines.
C24_Witness ==
  /\ pc = "done"
  /\ is_open
  /\ ret
  /\ Len(file) >= 3
  /\ Ignorable(file[1])
  /\ ~Ignorable(file[2])
  /\ Ignorable(file[3])
  /\ vertices_ # <<>>
  /\ last_error_ = kInvalidData
  /\ last_error_str_ # LoadLines(WithoutIgnorable(file)).last_error_str_

VertexAccepted(ln) ==
  /\ IsVertexRecord(ln)
  /\ LET r == ParseVertex(LTrim(ln), <<>>) IN ~r.thrown /\ r.ret

C26_TrueIffVertexAccepted ==
  /\ polygons_ # <<>> => vertices_ # <<>>
  /\ pc = "done" =>
       /\ ret <=> (is_open /\ \E i \in 1..Len(file) : VertexAccepted(file[i]))
       /\ ret <=> Len(vertices_) > 0

\* A file of face records and rejected vertex lines only: the load returns
\* false with an empty vertex buffer.
C26_Witness ==
  /\ pc = "done" /\ is_open /\ ~ret
  /\ \E i \in 1..Len(file) : IsFaceRecord(file[i])
  /\ \E i \in 1..Len(file) : IsVertexRecord(file[i])

(***************************************************************************)
(* C27: the error code a load leaves, by its return value.  A load that    *)
(* returned false left FileOpenError (the file did not open) or            *)
(* NoValidData, never Success or InvalidData.  A load that returned true   *)
(* left Success with an empty message when no line threw, and InvalidData  *)
(* with the message of the last line that threw otherwise.                 *)
(***************************************************************************)
\* What the parser called on line k of f threw, if the line is a record.
Thrown(f, k) ==
  LET before == Before(f, k)
      s == LTrim(f[k])
  IN  IF IsVertexRecord(f[k]) THEN ParseVertex(s, before.vertices_)
      ELSE IF IsFaceRecord(f[k])
      THEN ParsePolygon(s, before.vertices_, before.polygons_)
      ELSE [thrown |-> FALSE, e |-> NoException]

Throwing(f) == {k \in 1..Len(f) : Thrown(f, k).thrown}

LastOf(S) == CHOOSE k \in S : \A j \in S : j <= k

C27_ErrorCodeByReturnValue ==
  pc = "done" =>
    /\ ~ret => /\ last_error_ \in {kFileOpenError, kNoValidData}
               /\ last_error_ = kFileOpenError <=> ~is_open
    /\ ret => IF Throwing(file) = {}
              THEN last_error_ = kSuccess /\ last_error_str_ = NoMsg
              ELSE /\ last_error_ = kInvalidData
                   /\ last_error_str_ =
                        LET k == LastOf(Throwing(file))
                        IN  LineErrorMsg(k, Thrown(file, k).e)

\* A load that returned true after two lines threw, the last of them not
\* the last line of the file.
C27_Witness ==
  /\ pc = "done" /\ ret
  /\ Cardinality(Throwing(file)) >= 2
  /\ LastOf(Throwing(file)) < Len(file)
  /\ last_error_ = kInvalidData

(***************************************************************************)
(* C28: in every state of the mesh each pair (a, b) that GetEdges()        *)
(* returns has a < b < GetVertexCount(): no edge joins a vertex to itself, *)
(* also when a polygon lists an index twice in a row, and no edge names a  *)
(* vertex the buffer does not hold.                                        *)
(***************************************************************************)
C28_EdgesWithinVertexBuffer ==
  LET edges == GetEdges(polygons_)
  IN  \A j \in 1..Len(edges) :
        /\ 0 <= edges[j][1]
        /\ edges[j][1] < edges[j][2]
        /\ edges[j][2] < Len(vertices_)

\* "f 1 1 2 3" and "f 1 2 1 3" stored among three vertices: the edges are
\* those of the triangle 0, 1, 2, none of them (0, 0).
C28_Witness ==
  /\ pc = "done" /\ ret
  /\ Len(vertices_) = 3
  /\ \E k \in 1..Len(polygons_) : polygons_[k] = <<0, 0, 1, 2>>
  /\ \E k \in 1..Len(polygons_) : polygons_[k] = <<0, 1, 0, 2>>
  /\ GetEdges(polygons_) = <<<<0, 1>>, <<0, 2>>, <<1, 2>>>>

(***************************************************************************)
(* C29: a MoveCommand, RotateCommand or ScaleCommand changes vertex        *)
(* coordinates and nothing else.  The vertex count is kept and vertex i    *)
(* becomes the transform of vertex i, so the order is kept; the polygon    *)
(* buffer, the result of GetEdges(), IsValid(), the recorded path and the  *)
(* last error code and message are unchanged.  No field of the Model, the  *)
(* manager or the window records the command: `commands`, the history kept *)
(* here to state properties, is the only other variable that changes.      *)
(* Holding for every step, it holds after every sequence of commands.      *)
(***************************************************************************)
TransformStep ==
  /\ CommandStep
  /\ commands'[Len(commands')].name \in {"Move", "Rotate", "Scale"}

C29_OnlyCoordinatesChange ==
  [][TransformStep =>
       LET cmd == commands'[Len(commands')]
       IN  /\ Len(vertices_') = Len(vertices_)
           /\ \A i \in 1..Len(vertices_) :
                vertices_'[i] = IF cmd.held
                                THEN Apply(cmd, <<vertices_[i]>>)[1]
                                ELSE vertices_[i]
           /\ polygons_' = polygons_
           /\ GetEdges(polygons_') = GetEdges(polygons_)
           /\ Model_IsValid(vertices_', polygons_')
                = Model_IsValid(vertices_, polygons_)
           /\ UNCHANGED <<path_file_, last_error_, last_error_str_>>
           /\ UNCHANGED <<pc, file, is_open, line_num, has_valid_data, ret,
                          had_data, current_model_, caller, normalize_calls,
                          loaded, gui>>]_vars

\* A loaded mesh with a polygon and the error of a line that threw, after a
\* Move, a Rotate and a Scale that changed its coordinates: the buffers have
\* the sizes the load left and the error is the one it left.
C29_Witness ==
  /\ pc = "done" /\ ret /\ current_model_ = "model"
  /\ {commands[i].name : i \in 1..Len(commands)} = {"Move", "Rotate", "Scale"}
  /\ polygons_ # <<>>
  /\ last_error_ = kInvalidData
  /\ Len(vertices_) = Len(loaded)
  /\ vertices_ # loaded

(***************************************************************************)
(* C30: what a click on the load button leaves once the load it started    *)
(* has returned.  After a load that succeeded the widget holds the vertex  *)
(* buffer and the edges of the new mesh and the info panel shows its       *)
(* counts; after a load that failed the warning shown carries the Model's  *)
(* last error string, and the file path and the info panel are cleared.    *)
(***************************************************************************)
C30_ClickShowsOutcome ==
  (pc = "done" /\ gui.clicked) =>
    IF ret
    THEN /\ gui.vertices_ = "held"
         /\ gui.edges_ = GetEdges(polygons_)
         /\ gui.infoVertices = Len(vertices_)
         /\ gui.infoEdges = GetEdgeCount(polygons_)
    ELSE /\ gui.warning = last_error_str_
         /\ gui.filePathEdit = ""
         /\ gui.infoFileName = "-"
         /\ gui.infoVertices = 0
         /\ gui.infoEdges = 0

====
